---- MODULE Spec2Model ----
(***************************************************************************)
(* AWS Backup Actions Framework: the Step Functions workflows that export  *)
(* a completed AWS Backup recovery point to S3.                            *)
(*                                                                         *)
(* The model covers the top-level machine (MetadataTask, the "Snapshot     *)
(* type" router, the three Run ... Machine tasks, the optional             *)
(* DeleteSnapshotTask) and the three export machines it starts (EBS, RDS / *)
(* Aurora, DynamoDB).  A run state ("$" of an execution) is a function     *)
(* from the names of its top-level fields to their values, so that a       *)
(* ResultPath that adds a field and a Catch that replaces the whole state  *)
(* are different things.  Every API call, Lambda invocation and polled     *)
(* status is an input drawn from a small set.                              *)
(*                                                                         *)
(* MetadataTask runs the metadata handler (metadataHandler) on the inbound *)
(* event: the handler is an operator from the event and from what its      *)
(* surroundings answer to the outcome of one invocation.  SpecHandler runs *)
(* the handler on its own, on one event or on two side by side.            *)
(***************************************************************************)
EXTENDS Integers, Sequences, FiniteSets, TLC

VARIABLES
    autoDeleteSnapshot, \* context flag "auto-delete-snapshot"
    acb,                \* current state of the top-level machine
    acbRetry,           \* retries used by the current top-level task
    acbData,            \* run state of the top-level execution before the Run task
    output,             \* $.Output of the Run task once it succeeded
    lastOutcome,        \* status of the most recent export sub-execution
    executions,         \* number of export sub-executions started
    deleteRecoveryPointCalls, \* backup:deleteRecoveryPoint calls issued
    deleteRecoveryPointFailed, \* the latest deleteRecoveryPoint call failed
    sub,                \* current state of the export sub-execution
    data,               \* run state of the export sub-execution
    retry,              \* retries used by the current sub-execution task
    task,               \* key of the EBSBatchJobTask<az> chosen by "EBS Ready?"
    volume,             \* volume id returned by createVolume in this execution
    volumeAz,           \* availability zone createVolume was asked for
    createVolumeCalls,  \* ec2:createVolume calls of this execution
    deleteVolumeCalls,  \* ec2:deleteVolume calls of this execution
    detachVolumeCalls,  \* ec2:detachVolume calls of this execution
    submitJobCalls,     \* batch:submitJob calls of this execution
    jobFailed,          \* the archival Batch job of this execution failed
    deleteDone,         \* a deleteVolume call of this execution succeeded
    inUseCaught,        \* the VolumeInUse catcher of EBSCleanupTask was taken
    VALIDAZS,           \* process.env.VALIDAZS of the metadata handler
    event,              \* serviceEventDetails of the inbound event
    result,             \* outcome of the latest handler invocation on event
    called,             \* external calls the handler issued for event so far
    azSeen,             \* AvailabilityZone values returned for event so far
    event2,             \* a second inbound event, for comparing two jobs
    result2,            \* outcome of the latest handler invocation on event2
    worker,             \* state of each EBS.sh process on a worker host
    lockfiles,          \* letters l for which ${IROOT}/tmp/ebsdevlock.l exists
    blockdevs           \* letters l for which ${IROOT}/dev/xvdl is a block device

vars == <<autoDeleteSnapshot, acb, acbRetry, acbData, output, lastOutcome,
          executions, deleteRecoveryPointCalls,
          deleteRecoveryPointFailed, sub, data, retry, task,
          volume, volumeAz, createVolumeCalls, deleteVolumeCalls,
          detachVolumeCalls, submitJobCalls, jobFailed, deleteDone,
          inUseCaught, VALIDAZS, event, result, called, azSeen, event2,
          result2, worker, lockfiles, blockdevs>>

acbVars == <<autoDeleteSnapshot, acb, acbRetry, acbData, output, lastOutcome,
             executions, deleteRecoveryPointCalls,
             deleteRecoveryPointFailed>>

\* What the metadata handler reads and leaves behind.
handlerVars == <<VALIDAZS, event, result, called, azSeen, event2, result2>>

\* The worker host.
workerVars == <<worker, lockfiles, blockdevs>>

ebsHistory == <<volume, volumeAz, createVolumeCalls, deleteVolumeCalls,
                detachVolumeCalls, submitJobCalls, jobFailed, deleteDone,
                inUseCaught>>

----------------------------------------------------------------------------
(* Bounds and inputs *)

\* Longest call log kept per API; a log that is full is no longer extended.
MaxCalls == 5

\* Retries of a task that has .addRetry() with the CDK defaults.
RetryMaxAttempts == 3

\* The availability zones of the VPC's isolated subnets (maxAzs: 3).
AvailabilityZones == {"az-a", "az-b", "az-c"}

ResourceTypes == {"EBS", "Aurora", "RDS", "DynamoDB"}

VolumeIds == {"vol-1", "vol-2"}

\* ec2 volume states a describeVolumes poll can return.
VolumeStates == {"creating", "available", "in-use", "deleting", "error"}

\* Export statuses a describeExportTasks / describeExport poll can return:
\* the RDS and DynamoDB vocabularies and one value neither machine names.
ExportStatuses == {"STARTING", "IN_PROGRESS", "COMPLETE", "COMPLETED",
                   "CANCELING", "CANCELED", "FAILED", "UNRECOGNIZED"}

\* Error names a failing deleteVolume can raise.
DeleteErrors == {"VolumeInUse", "States.TaskFailed"}

None == "none"

----------------------------------------------------------------------------
(* Run states *)

Has(d, k) == k \in DOMAIN d

Put(d, k, v) == [x \in (DOMAIN d) \cup {k} |-> IF x = k THEN v ELSE d[x]]

Empty == [x \in {} |-> None]

\* The error output of a failed state: {"Error": ..., "Cause": ...}.
ErrorOutput(e) == [x \in {"Error", "Cause"} |-> e]

Log(calls, c) == IF Len(calls) < MaxCalls THEN Append(calls, c) ELSE calls

----------------------------------------------------------------------------
(* Strings, numbers and dates of the metadata handler                      *)
(*                                                                         *)
(* A JavaScript string is the sequence of its characters, so that split,   *)
(* join, padStart and the regular expression work on what they work on in  *)
(* the code.  A field of the inbound event is a typed value, because the   *)
(* handler tests typeof before it uses the field.                          *)

Str(s) == [type |-> "string", str |-> s, num |-> 0]

Num(n) == [type |-> "number", str |-> <<>>, num |-> n]

\* A field that is absent from the event.
Undefined == [type |-> "undefined", str |-> <<>>, num |-> 0]

typeof(v) == v.type

\* String.prototype.split(sep): the pieces between the occurrences of sep.
RECURSIVE split(_, _)
split(s, sep) ==
    IF \A i \in 1..Len(s) : s[i] # sep
    THEN <<s>>
    ELSE LET i == CHOOSE j \in 1..Len(s) :
                      s[j] = sep /\ \A k \in 1..(j - 1) : s[k] # sep
         IN  <<SubSeq(s, 1, i - 1)>> \o split(SubSeq(s, i + 1, Len(s)), sep)

\* Array.prototype.join(sep).
RECURSIVE join(_, _)
join(parts, sep) ==
    IF Len(parts) = 0 THEN <<>>
    ELSE IF Len(parts) = 1 THEN parts[1]
    ELSE parts[1] \o <<sep>> \o join(Tail(parts), sep)

Digits == <<"0", "1", "2", "3", "4", "5", "6", "7", "8", "9">>

\* Number.prototype.toString() of a non-negative integer.
RECURSIVE toString(_)
toString(n) ==
    IF n < 10 THEN <<Digits[n + 1]>>
    ELSE toString(n \div 10) \o <<Digits[(n % 10) + 1]>>

\* String.prototype.padStart(targetLength, padString) with a one-character
\* pad: a string that is already long enough is returned as it is.
padStart(s, targetLength, pad) ==
    IF Len(s) >= targetLength THEN s
    ELSE [i \in 1..(targetLength - Len(s)) |-> pad] \o s

\* /^[a-zA-Z0-9\-\_]{2,50}$/: the characters of the class that the inputs
\* use, and the two lengths of the quantifier.
VaultNameChars == {"a", "b", "v", "A", "Z", "0", "9", "-", "_"}

VaultNameMinLen == 2

VaultNameMaxLen == 50

\* VaultNamePattern without the upper bound of the quantifier.
VaultNamePatternNoMax(s) ==
    /\ Len(s) >= VaultNameMinLen
    /\ \A i \in 1..Len(s) : s[i] \in VaultNameChars

VaultNamePattern(s) ==
    /\ Len(s) >= VaultNameMinLen
    /\ Len(s) <= VaultNameMaxLen
    /\ \A i \in 1..Len(s) : s[i] \in VaultNameChars

\* ARN.validate of @aws-sdk/util-arn-parser: the string starts with "arn:"
\* and has at least six ":"-separated segments.
ArnMinSegments == 6

validate(s) ==
    /\ Len(s) >= 4
    /\ SubSeq(s, 1, 4) = <<"a", "r", "n", ":">>
    /\ Len(split(s, ":")) >= ArnMinSegments

SecondsPerDay == 86400

\* new Date(seconds * 1000 + nanos / 1000000): the time value in
\* milliseconds, its fraction dropped, kept as whole seconds since the epoch
\* and the milliseconds within the second (the product by 1000 of a present
\* day timestamp does not fit the 32 bits of the checker's integers).
NewDate(seconds, nanos) ==
    [sec |-> seconds + ((nanos \div 1000000) \div 1000),
     ms  |-> (nanos \div 1000000) % 1000]

\* The civil date of a day number counted from 1970-01-01 in the proleptic
\* Gregorian calendar, which is what the getUTC* accessors read.
CivilFromDays(days) ==
    LET z   == days + 719468
        era == z \div 146097
        doe == z - era * 146097
        yoe == (doe - doe \div 1460 + doe \div 36524 - doe \div 146096) \div 365
        doy == doe - (365 * yoe + yoe \div 4 - yoe \div 100)
        mp  == (5 * doy + 2) \div 153
        m   == IF mp < 10 THEN mp + 3 ELSE mp - 9
    IN  [year  |-> yoe + era * 400 + (IF m <= 2 THEN 1 ELSE 0),
         month |-> m,
         date  |-> doy - (153 * mp + 2) \div 5 + 1]

getUTCFullYear(d) == CivilFromDays(d.sec \div SecondsPerDay).year

\* getUTCMonth counting the months from 1.
getUTCMonthFromOne(d) == CivilFromDays(d.sec \div SecondsPerDay).month

\* getUTCMonth() counts the months from 0.
getUTCMonth(d) == CivilFromDays(d.sec \div SecondsPerDay).month - 1

getUTCDate(d) == CivilFromDays(d.sec \div SecondsPerDay).date

\* Date.prototype.toISOString(): YYYY-MM-DDTHH:mm:ss.sssZ.
toISOString(d) ==
    LET s == d.sec % SecondsPerDay
    IN  padStart(toString(getUTCFullYear(d)), 4, "0") \o <<"-">>
        \o padStart(toString(getUTCMonth(d) + 1), 2, "0") \o <<"-">>
        \o padStart(toString(getUTCDate(d)), 2, "0") \o <<"T">>
        \o padStart(toString(s \div 3600), 2, "0") \o <<":">>
        \o padStart(toString((s % 3600) \div 60), 2, "0") \o <<":">>
        \o padStart(toString(s % 60), 2, "0") \o <<".">>
        \o padStart(toString(d.ms), 3, "0") \o <<"Z">>

----------------------------------------------------------------------------
(* The metadata handler (metadataHandler)                                  *)
(*                                                                         *)
(* An event is the serviceEventDetails of the inbound Backup Job State     *)
(* Change event: backupJobId, backupVaultName, resourceArn,                *)
(* recoveryPointArn, seconds and nanos are typed values, state and         *)
(* resourceType are the words the code compares them with.  What the       *)
(* handler's surroundings answer during one invocation (the bucket list,   *)
(* the lookups, Math.random) is the invocation's env.                      *)

\* process.env.BUCKET.
BUCKET == "bucket"

\* No value interpolated into an error message.
NoValue == [type |-> "none", str |-> <<>>, num |-> 0]

NoError == [name |-> None, text |-> None, value |-> NoValue, word |-> None]

\* The invocation failed: the error's class, its message template, the
\* event value and the word interpolated into the message, and the calls
\* the handler issued before it threw.
Throw(name, text, value, word, calls) ==
    [ok |-> FALSE,
     error |-> [name |-> name, text |-> text, value |-> value, word |-> word],
     calls |-> calls, pending |-> {}, failed |-> {}, listed |-> {},
     value |-> Empty]

\* The six assert(...) statements that follow the state test.
Asserts(ev) ==
    /\ typeof(ev.backupJobId) = "string"
    /\ typeof(ev.backupVaultName) = "string"
         /\ VaultNamePattern(ev.backupVaultName.str)
    /\ typeof(ev.resourceArn) = "string" /\ validate(ev.resourceArn.str)
    /\ typeof(ev.recoveryPointArn) = "string"
         /\ validate(ev.recoveryPointArn.str)
    /\ typeof(ev.seconds) = "number"
    /\ typeof(ev.nanos) = "number"

\* Steps of Math.random(): the value is k / RandomSteps for a k below
\* RandomSteps, so it is at least 0 and less than 1.
RandomSteps == 3

\* AvailabilityZone with Math.round in the place of Math.floor.
AvailabilityZoneRound(azlist, k) ==
    LET i == (2 * k * Len(azlist) + RandomSteps) \div (2 * RandomSteps)
    IN  IF i + 1 \in DOMAIN azlist
        THEN (IF Len(azlist[i + 1]) = 0 THEN "" ELSE azlist[i + 1][1])
        ELSE "undefined"

\* azlist[Math.floor(Math.random() * azlist.length)]; an index outside the
\* array reads undefined.  An element of azlist is a piece of VALIDAZS, in
\* which an availability zone's name is one character.
AvailabilityZone(azlist, k) ==
    LET i == (k * Len(azlist)) \div RandomSteps
    IN  IF i + 1 \in DOMAIN azlist
        THEN (IF Len(azlist[i + 1]) = 0 THEN "" ELSE azlist[i + 1][1])
        ELSE "undefined"

\* S3Prefix with the resource type as one more piece.
S3PrefixWithType(ev, creationDate) ==
    join(split(ev.resourceArn.str, ":")
           \o << <<"Y", "=">> \o padStart(toString(getUTCFullYear(creationDate)), 4, "0"),
                 <<"M", "=">> \o padStart(toString(getUTCMonth(creationDate) + 1), 2, "0"),
                 <<"D", "=">> \o padStart(toString(getUTCDate(creationDate)), 2, "0"),
                 <<ev.resourceType>>,
                 ev.backupJobId.str >>,
         "/")

\* S3Prefix without the job id as its last piece.
S3PrefixNoJobId(ev, creationDate) ==
    join(split(ev.resourceArn.str, ":")
           \o << <<"Y", "=">> \o padStart(toString(getUTCFullYear(creationDate)), 4, "0"),
                 <<"M", "=">> \o padStart(toString(getUTCMonth(creationDate) + 1), 2, "0"),
                 <<"D", "=">> \o padStart(toString(getUTCDate(creationDate)), 2, "0") >>,
         "/")

\* The S3Prefix expression of the returned object.
S3Prefix(ev, creationDate) ==
    join(split(ev.resourceArn.str, ":")
           \o << <<"Y", "=">> \o padStart(toString(getUTCFullYear(creationDate)), 4, "0"),
                 <<"M", "=">> \o padStart(toString(getUTCMonth(creationDate) + 1), 2, "0"),
                 <<"D", "=">> \o padStart(toString(getUTCDate(creationDate)), 2, "0"),
                 ev.backupJobId.str >>,
         "/")

\* SnapshotId taken as .split("/")[1], the way the EBS lookup takes the
\* volume id from resourceArn.
SnapshotIdSecondPiece(ev) ==
    LET pieces == split(ev.recoveryPointArn.str, "/")
    IN  IF Len(pieces) >= 2 THEN pieces[2] ELSE pieces[1]

\* recoveryPointArn.split("/").slice(-1)[0].
SnapshotId(ev) ==
    LET pieces == split(ev.recoveryPointArn.str, "/")
    IN  pieces[Len(pieces)]

\* SnapshotArn taken from the ARN of the backed-up resource.
SnapshotArnOfResource(ev) == ev.resourceArn.str

\* SnapshotArn: event.detail.serviceEventDetails.recoveryPointArn.
SnapshotArn(ev) == ev.recoveryPointArn.str

\* The object the handler returns.
Return(ev, env, azs, tags, engine, calls, pending, failed) ==
    LET azlist == split(azs, ",")
        creationDate == NewDate(ev.seconds.num, ev.nanos.num)
    IN  [ok |-> TRUE, error |-> NoError, calls |-> calls, pending |-> pending,
         failed |-> failed, listed |-> {},
         value |->
           [x \in {"AvailabilityZone", "SnapshotArn", "SnapshotId",
                   "ResourceType", "BackupVaultName", "ResourceArn",
                   "S3BucketName", "S3Prefix", "CreationDate", "Tags",
                   "Engine"} |->
              CASE x = "AvailabilityZone" -> AvailabilityZone(azlist, env.random)
                [] x = "SnapshotArn"      -> SnapshotArn(ev)
                [] x = "SnapshotId"       -> SnapshotId(ev)
                [] x = "ResourceType"     -> ev.resourceType
                [] x = "BackupVaultName"  -> ev.backupVaultName.str
                [] x = "ResourceArn"      -> ev.resourceArn.str
                [] x = "S3BucketName"     -> BUCKET
                [] x = "S3Prefix"         -> S3Prefix(ev, creationDate)
                [] x = "CreationDate"     -> toISOString(creationDate)
                [] x = "Tags"             -> tags
                [] OTHER                  -> engine]]

\* A lookup the handler awaits: its failure is the handler's failure.
Awaited(ev, env, azs, call) ==
    IF env.lookup = "ok"
    THEN Return(ev, env, azs, env.tags, <<>>, <<"listBuckets", call>>, {}, {})
    ELSE [Throw("ServiceError", call, NoValue, None, <<"listBuckets", call>>)
            EXCEPT !.failed = {call}]

\* The two lookups of a database snapshot.  Both requests are sent, and
\* Promise.all(...).then(...) is not awaited: the handler goes on to its
\* return statement with tags and engine as they were initialised, while
\* both requests are outstanding, whatever they answer later (failed: the
\* requests that are answered with an error).
NotAwaited(ev, env, azs, describe) ==
    Return(ev, env, azs, <<>>, <<>>,
           <<"listBuckets", describe, "listTagsForResource">>,
           {describe, "listTagsForResource"},
           (IF env.lookup = "ok" THEN {} ELSE {describe})
             \cup (IF env.tagLookup = "ok" THEN {}
                   ELSE {"listTagsForResource"}))

\* Lookup with a default case that returns instead of throwing.
LookupAnyType(ev, env, azs) ==
    CASE ev.resourceType = "EBS" ->
           IF Len(split(ev.resourceArn.str, "/")) >= 2
           THEN Awaited(ev, env, azs, "describeTags")
           ELSE Throw("ServiceError", "describeTags", NoValue, None,
                      <<"listBuckets">>)
      [] ev.resourceType = "Aurora" ->
           NotAwaited(ev, env, azs, "describeDBClusterSnapshots")
      [] ev.resourceType = "RDS" ->
           NotAwaited(ev, env, azs, "describeDBSnapshots")
      [] ev.resourceType = "DynamoDB" ->
           Awaited(ev, env, azs, "listTagsOfResource")
      [] OTHER ->
           Return(ev, env, azs, <<>>, <<>>, <<"listBuckets">>, {}, {})

\* The switch on resourceType.
Lookup(ev, env, azs) ==
    CASE ev.resourceType = "EBS" ->
           IF Len(split(ev.resourceArn.str, "/")) >= 2
           THEN Awaited(ev, env, azs, "describeTags")
           ELSE Throw("ServiceError", "describeTags", NoValue, None,
                      <<"listBuckets">>)
      [] ev.resourceType = "Aurora" ->
           NotAwaited(ev, env, azs, "describeDBClusterSnapshots")
      [] ev.resourceType = "RDS" ->
           NotAwaited(ev, env, azs, "describeDBSnapshots")
      [] ev.resourceType = "DynamoDB" ->
           Awaited(ev, env, azs, "listTagsOfResource")
      [] OTHER ->
           Throw("Error", "Invalid resourceType: ${resourceType}", NoValue,
                 ev.resourceType, <<"listBuckets">>)

\* checkBucketOwner with every bucket taken for the account's own.
checkBucketOwnerAlways(buckets, bucket) == TRUE

\* checkBucketOwner: data.Buckets.some((b) => b.Name === bucket).
checkBucketOwner(buckets, bucket) == \E b \in buckets : b = bucket

\* The asserts, the bucket ownership test, the lookups and the return
\* statement.
Checked(ev, env, azs) ==
    IF ~Asserts(ev)
    THEN Throw("AssertionError", "assert", NoValue, None, <<>>)
    ELSE IF env.listBuckets # "ok"
    THEN [Throw("ServiceError", "listBuckets", NoValue, None,
                <<"listBuckets">>) EXCEPT !.failed = {"listBuckets"}]
    ELSE IF ~checkBucketOwner(env.buckets, BUCKET)
    THEN Throw("Error",
               "Backup bucket ${BUCKET} is not owned by this account.",
               NoValue, BUCKET, <<"listBuckets">>)
    ELSE Lookup(ev, env, azs)

\* The branch of a COMPLETED job, with the names listBuckets answered, when
\* it was called and answered, kept in the outcome.
Completed(ev, env, azs) ==
    LET r == Checked(ev, env, azs)
    IN  IF r.calls # <<>> /\ "listBuckets" \notin r.failed
        THEN [r EXCEPT !.listed = env.buckets]
        ELSE r

\* metadataHandler without the test of the job's state.
metadataHandlerAnyState(ev, env, azs) == Completed(ev, env, azs)

\* One invocation of the handler on event ev, with VALIDAZS being azs.
metadataHandler(ev, env, azs) ==
    IF ev.state = "COMPLETED"
    THEN Completed(ev, env, azs)
    ELSE Throw("Error",
               "Backup job ${backupJobId} terminated in state ${state}",
               ev.backupJobId, ev.state, <<>>)

----------------------------------------------------------------------------
(* Inbound events and invocation environments                              *)

Job42 == <<"j", "o", "b", "-", "4", "2">>

JobOther == <<"j", "o", "b", "-", "7">>

VaultOk == <<"v", "a", "_", "Z", "-", "9">>

\* arn:a:e:r:1:v/x, the same with ":" before the last piece, and another
\* resource.
ArnVolume == <<"a", "r", "n", ":", "a", ":", "e", ":", "r", ":", "1", ":", "v", "/", "x">>

ArnColon == <<"a", "r", "n", ":", "a", ":", "e", ":", "r", ":", "1", ":", "v", ":", "x">>

ArnOther == <<"a", "r", "n", ":", "a", ":", "e", ":", "r", ":", "1", ":", "v", "/", "y">>

\* Strings that are no ARN: too few segments, and no "arn:" in front.
ArnShort == <<"a", "r", "n", ":", "a", ":", "e">>

ArnNoPrefix == <<"x", ":", "a", ":", "e", ":", "r", ":", "1", ":", "v", "/", "x">>

\* arn:a:b:r:1:p/s
RecoveryPoint == <<"a", "r", "n", ":", "a", ":", "b", ":", "r", ":", "1", ":", "p", "/", "s">>

Event(job, vault, rt, arn, rp, state, seconds, nanos) ==
    [backupJobId |-> job, backupVaultName |-> vault, resourceType |-> rt,
     resourceArn |-> arn, recoveryPointArn |-> rp, state |-> state,
     seconds |-> seconds, nanos |-> nanos]

\* A well-formed event of a completed job on a resource of type rt.
BaseEvent(rt) ==
    Event(Str(Job42), Str(VaultOk), rt, Str(ArnVolume), Str(RecoveryPoint),
          "COMPLETED", Num(1700000000), Num(0))

\* A resource type AWS Backup knows and the handler does not.
InvalidResourceType == "EFS"

\* Job states other than COMPLETED.
OtherStates == {"FAILED", "ABORTED", "EXPIRED"}

\* Vault names: the shortest and the longest the pattern takes, and values
\* it refuses (too short, too long, a character outside the class, no string).
VaultValues ==
    {Str(VaultOk), Str(<<"v", "a">>), Str([i \in 1..VaultNameMaxLen |-> "a"]),
     Str(<<"v">>), Str(<<>>), Str([i \in 1..(VaultNameMaxLen + 1) |-> "a"]),
     Str(<<"v", "a", "!">>), Str(<<"v", " ", "a">>), Num(7), Undefined}

ArnValues ==
    {Str(ArnVolume), Str(ArnColon), Str(ArnShort), Str(ArnNoPrefix),
     Str(<<>>), Undefined}

\* Events of completed jobs that differ in what the asserts look at.
ValidationEvents ==
    {Event(job, vault, "DynamoDB", arn, rp, "COMPLETED", seconds, nanos) :
        job \in {Str(Job42), Num(42)},
        vault \in VaultValues,
        arn \in ArnValues,
        rp \in {Str(RecoveryPoint), Str(ArnShort)},
        seconds \in {Num(1700000000), Str(<<"1", "7">>), Undefined},
        nanos \in {Num(0), Undefined}}

\* arn:a:b:r:1:p/q/s and arn:a:b:r:1:p/
RecoveryPointNested ==
    <<"a", "r", "n", ":", "a", ":", "b", ":", "r", ":", "1", ":", "p", "/",
      "q", "/", "s">>

RecoveryPointTrailing ==
    <<"a", "r", "n", ":", "a", ":", "b", ":", "r", ":", "1", ":", "p", "/">>

\* Events of completed jobs whose recovery point ARN has one "/", none,
\* several, or ends in one.
RecoveryPointEvents ==
    {Event(Str(Job42), Str(VaultOk), rt, Str(ArnVolume), Str(rp), "COMPLETED",
           Num(1700000000), Num(0)) :
        rt \in {"EBS", "RDS"},
        rp \in {RecoveryPoint, ArnColon, RecoveryPointNested,
                RecoveryPointTrailing}}

\* Events of jobs that did not complete, well-formed or not.
TerminatedEvents ==
    {Event(job, vault, rt, Str(ArnVolume), Str(RecoveryPoint), state,
           Num(1700000000), Num(0)) :
        job \in {Str(Job42), Str(JobOther), Undefined},
        vault \in {Str(VaultOk), Str(<<"v">>)},
        rt \in {"EBS", "RDS", InvalidResourceType},
        state \in OtherStates \cup {"completed", "RUNNING"}}

\* The events a top-level execution is started on.
Events ==
    {BaseEvent(rt) : rt \in ResourceTypes \cup {InvalidResourceType}}
    \cup TerminatedEvents
    \cup {[BaseEvent("RDS") EXCEPT !.backupVaultName = Str(<<"v">>)]}

\* Seconds since the epoch around the ends of days, months and years, of
\* leap days, and the largest value of a signed 32-bit count.
DateSeconds ==
    {0, 86399, 86400, 951782399, 951782400, 951868800, 1675209600,
     1677628799, 1677628800, 1700000000, 1704067199, 1704067200,
     1709251199, 1709251200, 2147483647}

\* creationDate.nanos is a count of nanoseconds within the second.
DateNanos == {0, 999999999}

DateEvents ==
    {[BaseEvent("DynamoDB") EXCEPT !.seconds = Num(s), !.nanos = Num(n)] :
        s \in DateSeconds, n \in DateNanos}

\* Well-formed events of completed jobs that differ from BaseEvent in any
\* of resource, creation time (another instant of the same UTC day, and one
\* of the next day), job id and type.
PairEvents ==
    {Event(Str(job), Str(VaultOk), rt, Str(arn), Str(RecoveryPoint),
           "COMPLETED", Num(s), Num(0)) :
        job \in {Job42, JobOther},
        rt \in {"EBS", "RDS", "DynamoDB"},
        arn \in {ArnVolume, ArnColon, ArnOther},
        s \in {1700000000, 1700006399, 1700006400}}

\* What one invocation is answered: the account's buckets, whether
\* listBuckets and the lookups succeed, the step of Math.random, the tags.
\* An answer the handler cannot come to ask for (after a failed listBuckets,
\* or for a bucket list without BUCKET) is kept at one value.
Envs ==
    {env \in [buckets : {{BUCKET, "other"}, {"other"}},
              listBuckets : {"ok", "fail"},
              lookup : {"ok", "fail"},
              tagLookup : {"ok", "fail"},
              random : 0..(RandomSteps - 1),
              tags : {<<"t">>}] :
        (env.listBuckets = "fail" \/ BUCKET \notin env.buckets)
           => /\ env.lookup = "ok" /\ env.tagLookup = "ok" /\ env.random = 0
              /\ (env.listBuckets = "fail" => BUCKET \in env.buckets)}

\* availabilityZones.join(",") of the VPC's isolated subnets.
VpcAzs == <<"az-a", ",", "az-b", ",", "az-c">>

\* Other values of VALIDAZS: no zone, one zone, two zones.
AzConfigs == {<<>>, <<"az-a">>, <<"az-a", ",", "az-b">>, VpcAzs}

\* No second event.
NoEvent ==
    Event(Undefined, Undefined, None, Undefined, Undefined, None, Undefined,
          Undefined)

\* No invocation yet.
NoResult ==
    [ok |-> FALSE, error |-> NoError, calls |-> <<>>, pending |-> {},
     failed |-> {}, listed |-> {}, value |-> Empty]

Invoked(r) == r.ok \/ r.error.name # None

----------------------------------------------------------------------------
(* Batch compute environments and job queues: one of each per isolated     *)
(* subnet, keyed by the subnet's availability zone.                        *)

ces == [az \in AvailabilityZones |->
          [name |-> "ComputeEnv", subnetAz |-> az]]

\* jqs with no job queue for the last availability zone.
jqsWithoutLastZone ==
    [az \in AvailabilityZones \ {"az-c"} |->
       [name |-> "JobQueue", computeEnvironment |-> ces[az]]]

jqs == [az \in AvailabilityZones |->
          [name |-> "JobQueue", computeEnvironment |-> ces[az]]]

\* One BatchSubmitJob task per entry of jqs, submitting to that entry's queue.
ebsbatchtasks == [az \in DOMAIN jqs |-> [jobQueue |-> jqs[az]]]

----------------------------------------------------------------------------
(* The top-level machine *)

\* acbSuccessState with the auto-delete flag ignored.
acbSuccessStateAlwaysDelete == "DeleteSnapshotTask"

\* What follows a Run ... Machine task that succeeded.
acbSuccessState == IF autoDeleteSnapshot THEN "DeleteSnapshotTask" ELSE "Success"

\* SnapshotType with Aurora snapshots sent to the EBS machine.
SnapshotTypeAuroraAsEBS(rt) ==
    CASE rt \in {"EBS", "Aurora"} -> "Run EBS Backup Machine"
      [] rt = "RDS"               -> "Run RDS Export Machine"
      [] rt = "DynamoDB"          -> "Run DDB Export Machine"
      [] OTHER                    -> "Failed"

\* The "Snapshot type" Choice; it has no otherwise branch, so a value that
\* matches no rule fails the execution (States.NoChoiceMatched).
SnapshotType(rt) ==
    CASE rt = "EBS"                -> "Run EBS Backup Machine"
      [] rt \in {"RDS", "Aurora"}  -> "Run RDS Export Machine"
      [] rt = "DynamoDB"           -> "Run DDB Export Machine"
      [] OTHER                     -> "Failed"

RunTasks == {"Run EBS Backup Machine", "Run RDS Export Machine",
             "Run DDB Export Machine"}

\* First state of the machine a Run task starts.
StartAt(run) ==
    CASE run = "Run EBS Backup Machine" -> "EBSRestoreTask"
      [] run = "Run RDS Export Machine" -> "RDSStartExportTask"
      [] OTHER                          -> "DDBStartExportTask"

SucceedStates == {"EBSSucceed", "RDSExportSucceed", "DDBExportSucceed"}

\* Fail states of the export machines, and the failure of an execution whose
\* task error no retrier or catcher handles.
FailStates == {"EBSFail", "EBSReadyFailed", "RDSExportFailed",
               "DDBExportFailed", "ExecutionFailed"}

ExecutionStatus(s) ==
    IF s \in SucceedStates THEN "SUCCEEDED"
    ELSE IF s \in FailStates THEN "FAILED"
    ELSE "RUNNING"

\* RunMachineTask with a failed sub-execution treated like a succeeded one.
RunMachineTaskIgnoresFailure(run, status, n) ==
    IF autoDeleteSnapshot THEN "DeleteSnapshotTask" ELSE "Success"

\* Next state of the top-level machine when the sub-execution of the Run
\* task `run` ended with `status`, `n` retries of the task being used up:
\* RUN_JOB fails the task when the sub-execution fails, and .addRetry()
\* runs the task again.
RunMachineTask(run, status, n) ==
    IF status = "SUCCEEDED" THEN acbSuccessState
    ELSE IF n < RetryMaxAttempts THEN run
    ELSE "Failed"

----------------------------------------------------------------------------
(* The archival worker (EBS.sh)                                            *)
(*                                                                         *)
(* Worker processes run the script side by side on one host.  Each command *)
(* of the script is one step of its process; the lock files under          *)
(* ${IROOT}/tmp and the block device files under ${IROOT}/dev are shared.  *)

\* The worker processes on the host: two jobs of one compute environment
\* placed on the same instance.
Procs == {"job-1", "job-2"}

\* Device letters tried by getnextdev, in its order (the script tries z
\* down to f).
NumLetters == 2

Letters == SubSeq(<<"z", "y", "x", "w", "v">>, 1, NumLetters)

\* max_attempts of `retry 3 attachvolume` and of `retry 5 mount`.
AttachAttempts == 3

MountAttempts == 5

\* The retry helper with one attempt fewer than max_attempts.
retryOneLess(max_attempts, attempt_num, succeeded) ==
    IF succeeded THEN "return 0"
    ELSE IF attempt_num >= max_attempts - 1 THEN "return 1"
    ELSE "again"

\* One round of the until loop of the retry helper: cmd ran for the attempt_num-th
\* time; the helper returns 0, returns 1, or sleeps and runs cmd again.
retryUntil(max_attempts, attempt_num, succeeded) ==
    IF succeeded THEN "return 0"
    ELSE IF attempt_num = max_attempts THEN "return 1"
    ELSE "again"

\* A process before its first command.
WorkerStart ==
    [pc |-> "args", l |-> 1, blkdev |-> None, devlockfile |-> None,
     attempt_num |-> 1, found |-> "", attached |-> FALSE,
     everAttached |-> FALSE, attachCalls |-> 0, mountCalls |-> 0,
     mounted |-> FALSE,
     detachCalls |-> 0, created |-> {}, written |-> {}, status |-> 0]

\* The script is over with the given exit status.
Exited(w, status) == w.pc = "exit" /\ w.status = status

\* exit: the process is over with the given status.
Exit(w, status) == [w EXCEPT !.pc = "exit", !.status = status]

\* The next round of the for loop of getnextdev, or the end of the loop.
NextLetter(w) ==
    IF w.l < NumLetters
    THEN [w EXCEPT !.l = w.l + 1, !.pc = "test -f"]
    ELSE [w EXCEPT !.pc = "test blkdev"]

----------------------------------------------------------------------------
\* The state every variable of the workflow has before an execution starts.
Idle ==
    /\ autoDeleteSnapshot \in BOOLEAN
    /\ acb = "MetadataTask"
    /\ acbRetry = 0
    /\ acbData = Empty
    /\ output = Empty
    /\ lastOutcome = None
    /\ executions = 0
    /\ deleteRecoveryPointCalls = <<>>
    /\ deleteRecoveryPointFailed = FALSE
    /\ sub = None
    /\ data = Empty
    /\ retry = 0
    /\ task = None
    /\ volume = None
    /\ volumeAz = None
    /\ createVolumeCalls = <<>>
    /\ deleteVolumeCalls = <<>>
    /\ detachVolumeCalls = <<>>
    /\ submitJobCalls = <<>>
    /\ jobFailed = FALSE
    /\ deleteDone = FALSE
    /\ inUseCaught = FALSE
    /\ result = NoResult
    /\ called = {}
    /\ azSeen = {}
    /\ result2 = NoResult
    /\ worker = [p \in Procs |-> WorkerStart]
    /\ lockfiles = {}
    /\ blockdevs = {}

\* A top-level execution started on one event.
Init ==
    /\ Idle
    /\ VALIDAZS = VpcAzs
    /\ event \in Events
    /\ event2 = NoEvent

subVars == <<sub, data, retry, task, volume, volumeAz, createVolumeCalls,
             deleteVolumeCalls, detachVolumeCalls, submitJobCalls, jobFailed,
             deleteDone, inUseCaught>>

\* Range of a sequence.
Range(q) == {q[i] : i \in DOMAIN q}

\* LambdaInvoke of metadataHandler with payloadResponseOnly, .addRetry():
\* the handler's return value becomes the run state, and an invocation that
\* throws is retried.
MetadataTask ==
    /\ acb = "MetadataTask"
    /\ \E env \in Envs : result' = metadataHandler(event, env, VALIDAZS)
    /\ called' = called \cup Range(result'.calls)
    /\ IF result'.ok
       THEN /\ acb' = "Snapshot type"
            /\ acbData' = result'.value
            /\ acbRetry' = 0
            /\ azSeen' = azSeen \cup {result'.value["AvailabilityZone"]}
       ELSE /\ acb' = IF acbRetry < RetryMaxAttempts
                      THEN "MetadataTask" ELSE "Failed"
            /\ acbRetry' = IF acbRetry < RetryMaxAttempts
                           THEN acbRetry + 1 ELSE 0
            /\ acbData' = acbData
            /\ azSeen' = azSeen
    /\ UNCHANGED <<autoDeleteSnapshot, output, lastOutcome, executions,
                   deleteRecoveryPointCalls,
                   deleteRecoveryPointFailed>>
    /\ UNCHANGED <<VALIDAZS, event, event2, result2, workerVars>>
    /\ UNCHANGED subVars

SnapshotTypeChoice ==
    /\ acb = "Snapshot type"
    /\ acb' = IF Has(acbData, "ResourceType")
              THEN SnapshotType(acbData["ResourceType"]) ELSE "Failed"
    /\ UNCHANGED <<autoDeleteSnapshot, acbRetry, acbData, output, lastOutcome,
                   executions, deleteRecoveryPointCalls,
                   deleteRecoveryPointFailed>>
    /\ UNCHANGED subVars
    /\ UNCHANGED <<handlerVars, workerVars>>

\* StepFunctionsStartExecution: start the export machine on the whole state.
RunMachineStart ==
    /\ acb \in RunTasks
    /\ sub = None
    /\ sub' = StartAt(acb)
    /\ data' = acbData
    /\ retry' = 0
    /\ task' = None
    /\ volume' = None
    /\ volumeAz' = None
    /\ createVolumeCalls' = <<>>
    /\ deleteVolumeCalls' = <<>>
    /\ detachVolumeCalls' = <<>>
    /\ submitJobCalls' = <<>>
    /\ jobFailed' = FALSE
    /\ deleteDone' = FALSE
    /\ inUseCaught' = FALSE
    /\ executions' = executions + 1
    /\ UNCHANGED <<autoDeleteSnapshot, acb, acbRetry, acbData, output,
                   lastOutcome, deleteRecoveryPointCalls,
                   deleteRecoveryPointFailed>>
    /\ UNCHANGED <<handlerVars, workerVars>>

\* StepFunctionsStartExecution (RUN_JOB): the sub-execution ended.
RunMachineEnd ==
    /\ acb \in RunTasks
    /\ ExecutionStatus(sub) # "RUNNING"
    /\ sub # None
    /\ lastOutcome' = ExecutionStatus(sub)
    /\ acb' = RunMachineTask(acb, ExecutionStatus(sub), acbRetry)
    /\ acbRetry' = IF acb' = acb THEN acbRetry + 1 ELSE 0
    /\ output' = IF ExecutionStatus(sub) = "SUCCEEDED" THEN data ELSE output
    /\ sub' = None
    /\ UNCHANGED <<autoDeleteSnapshot, acbData, executions,
                   deleteRecoveryPointCalls,
                   deleteRecoveryPointFailed>>
    /\ UNCHANGED <<data, retry, task>>
    /\ UNCHANGED ebsHistory
    /\ UNCHANGED <<handlerVars, workerVars>>

\* CallAwsService backup:deleteRecoveryPoint on $.Output; no retrier, no
\* catcher.
DeleteSnapshotTask ==
    /\ acb = "DeleteSnapshotTask"
    /\ IF {"BackupVaultName", "SnapshotArn"} \subseteq DOMAIN output
       THEN /\ deleteRecoveryPointCalls' =
                  Log(deleteRecoveryPointCalls,
                      [BackupVaultName |-> output["BackupVaultName"],
                       RecoveryPointArn |-> output["SnapshotArn"]])
            /\ \E ok \in BOOLEAN :
                 /\ acb' = IF ok THEN "Success" ELSE "Failed"
                 /\ deleteRecoveryPointFailed' = ~ok
       ELSE /\ acb' = "Failed"
            /\ UNCHANGED <<deleteRecoveryPointCalls, deleteRecoveryPointFailed>>
    /\ UNCHANGED <<autoDeleteSnapshot, acbRetry, acbData, output, lastOutcome,
                   executions>>
    /\ UNCHANGED subVars
    /\ UNCHANGED <<handlerVars, workerVars>>

----------------------------------------------------------------------------
(* The EBS backup machine *)

\* Move the sub-execution to state `next` with run state `d`.
Goto(next, d) ==
    /\ sub' = next
    /\ data' = d
    /\ retry' = 0

\* A failed attempt of a task that has .addRetry(): the task runs again
\* until the retries are used up; then the error goes to `next` with `d`.
RetryOr(next, d) ==
    IF retry < RetryMaxAttempts
    THEN /\ sub' = sub
         /\ data' = data
         /\ retry' = retry + 1
    ELSE Goto(next, d)

\* Run state delivered by EBSReadyTask.addCatch(EBSCleanupTask) and by
\* EBSCleanupTask.addCatch(EBSForceDetach, {errors: ["VolumeInUse"]}):
\* no resultPath is given, so the error output replaces the whole state.
CatchDefault(d, e) == ErrorOutput(e)

\* CatchJobtask without its resultPath.
CatchJobtaskNoResultPath(d, e) == ErrorOutput(e)

\* Run state delivered by jobtask.addCatch(EBSCleanupTask,
\* {resultPath: "$.Error"}): the error output is added under $.Error.
CatchJobtask(d, e) == Put(d, "Error", e)

\* ebsreadychoice with the availability-zone condition of its rules dropped:
\* the first rule matches every available volume.
ebsreadychoiceNoAz(d) ==
    IF d["Ready"] = "available"
    THEN [next |-> "EBSBatchJobTask", task |-> "az-a"]
    ELSE IF d["Ready"] = "creating"
    THEN [next |-> "EBSReadyWait", task |-> None]
    ELSE [next |-> "EBSReadyFailed", task |-> None]

\* The "EBS Ready?" Choice: the next state and the key of the chosen
\* EBSBatchJobTask<az>.
ebsreadychoice(d) ==
    IF d["Ready"] = "available" /\ d["AvailabilityZone"] \in DOMAIN ebsbatchtasks
    THEN [next |-> "EBSBatchJobTask", task |-> d["AvailabilityZone"]]
    ELSE IF d["Ready"] = "creating"
    THEN [next |-> "EBSReadyWait", task |-> None]
    ELSE [next |-> "EBSReadyFailed", task |-> None]

\* EBSCleanupResult with the $.Error test dropped.
EBSCleanupResultAlwaysSucceed(d) == "EBSSucceed"

\* The EBSCleanupResult Choice.
EBSCleanupResult(d) == IF ~Has(d, "Error") THEN "EBSSucceed" ELSE "EBSFail"

\* EBSWaitNext with EBSReadyWait followed by the Choice, not by a new poll.
EBSWaitNextSkipsPoll(w) ==
    IF w = "EBSReadyWait" THEN "EBS Ready?" ELSE "EBSCleanupTask"

\* What follows each Wait state of the EBS machine.
EBSWaitNext(w) == IF w = "EBSReadyWait" THEN "EBSReadyTask" ELSE "EBSCleanupTask"

\* ec2:createVolume from $.SnapshotId in $.AvailabilityZone, .addRetry().
EBSRestoreTask ==
    /\ sub = "EBSRestoreTask"
    /\ IF {"AvailabilityZone", "SnapshotId"} \subseteq DOMAIN data
       THEN /\ createVolumeCalls' =
                  Log(createVolumeCalls, data["AvailabilityZone"])
            /\ \E ok \in BOOLEAN, v \in VolumeIds :
                  IF ok
                  THEN /\ Goto("EBSReadyTask", Put(data, "Restore", v))
                       /\ volume' = v
                       /\ volumeAz' = data["AvailabilityZone"]
                  ELSE /\ RetryOr("ExecutionFailed", data)
                       /\ UNCHANGED <<volume, volumeAz>>
       ELSE /\ Goto("ExecutionFailed", data)
            /\ UNCHANGED <<createVolumeCalls, volume, volumeAz>>
    /\ UNCHANGED <<task, deleteVolumeCalls, detachVolumeCalls, submitJobCalls,
                   jobFailed, deleteDone, inUseCaught>>
    /\ UNCHANGED acbVars
    /\ UNCHANGED <<handlerVars, workerVars>>

\* ec2:describeVolumes of $.Restore.VolumeId; any error is caught and sent
\* to EBSCleanupTask.
EBSReadyTask ==
    /\ sub = "EBSReadyTask"
    /\ IF Has(data, "Restore")
       THEN \E ok \in BOOLEAN, st \in VolumeStates :
               IF ok
               THEN Goto("EBS Ready?", Put(data, "Ready", st))
               ELSE Goto("EBSCleanupTask", CatchDefault(data, "States.TaskFailed"))
       ELSE Goto("ExecutionFailed", data)
    /\ UNCHANGED task
    /\ UNCHANGED ebsHistory
    /\ UNCHANGED acbVars
    /\ UNCHANGED <<handlerVars, workerVars>>

EBSReadyChoice ==
    /\ sub = "EBS Ready?"
    /\ IF {"Ready", "AvailabilityZone"} \subseteq DOMAIN data
       THEN /\ Goto(ebsreadychoice(data).next, data)
            /\ task' = ebsreadychoice(data).task
       ELSE /\ Goto("ExecutionFailed", data)
            /\ UNCHANGED task
    /\ UNCHANGED ebsHistory
    /\ UNCHANGED acbVars
    /\ UNCHANGED <<handlerVars, workerVars>>

\* The Wait states EBSReadyWait (1 minute) and EBSWaitDetach (2 minutes).
EBSWait ==
    /\ sub \in {"EBSReadyWait", "EBSWaitDetach"}
    /\ Goto(EBSWaitNext(sub), data)
    /\ UNCHANGED task
    /\ UNCHANGED ebsHistory
    /\ UNCHANGED acbVars
    /\ UNCHANGED <<handlerVars, workerVars>>

\* BatchSubmitJob (RUN_JOB) to the queue of the chosen task; a failed job
\* is caught and sent to EBSCleanupTask with the error under $.Error.
EBSBatchJobTask ==
    /\ sub = "EBSBatchJobTask"
    /\ IF {"Restore", "S3BucketName", "S3Prefix"} \subseteq DOMAIN data
       THEN /\ submitJobCalls' =
                  Log(submitJobCalls,
                      [jobQueue |-> ebsbatchtasks[task].jobQueue,
                       volume |-> data["Restore"]])
            /\ \E ok \in BOOLEAN :
                  IF ok
                  THEN /\ Goto("EBSCleanupTask", Put(data, "JobResult", "SUCCEEDED"))
                       /\ UNCHANGED jobFailed
                  ELSE /\ Goto("EBSCleanupTask",
                               CatchJobtask(data, "States.TaskFailed"))
                       /\ jobFailed' = TRUE
       ELSE /\ Goto("ExecutionFailed", data)
            /\ UNCHANGED <<submitJobCalls, jobFailed>>
    /\ UNCHANGED <<task, volume, volumeAz, createVolumeCalls, deleteVolumeCalls,
                   detachVolumeCalls, deleteDone, inUseCaught>>
    /\ UNCHANGED acbVars
    /\ UNCHANGED <<handlerVars, workerVars>>

\* ec2:deleteVolume of $.Restore.VolumeId, with .addRetry() and a catcher
\* for VolumeInUse that leads to EBSForceDetach.  A state without
\* $.Restore.VolumeId fails the execution before any call is made.
EBSCleanupTask ==
    /\ sub = "EBSCleanupTask"
    /\ IF Has(data, "Restore")
       THEN /\ deleteVolumeCalls' = Log(deleteVolumeCalls, data["Restore"])
            /\ \E ok \in BOOLEAN, e \in DeleteErrors :
                  IF ok
                  THEN /\ Goto("EBSCleanupResult", Put(data, "DeleteVolume", "ok"))
                       /\ deleteDone' = TRUE
                       /\ UNCHANGED inUseCaught
                  ELSE /\ IF e = "VolumeInUse"
                          THEN RetryOr("EBSForceDetach", CatchDefault(data, e))
                          ELSE RetryOr("ExecutionFailed", data)
                       /\ inUseCaught' =
                             (inUseCaught \/ sub' = "EBSForceDetach")
                       /\ UNCHANGED deleteDone
       ELSE /\ Goto("ExecutionFailed", data)
            /\ UNCHANGED <<deleteVolumeCalls, deleteDone, inUseCaught>>
    /\ UNCHANGED <<task, volume, volumeAz, createVolumeCalls,
                   detachVolumeCalls, submitJobCalls, jobFailed>>
    /\ UNCHANGED acbVars
    /\ UNCHANGED <<handlerVars, workerVars>>

\* ec2:detachVolume of $.Restore.VolumeId; no retrier, no catcher.
EBSForceDetach ==
    /\ sub = "EBSForceDetach"
    /\ IF Has(data, "Restore")
       THEN /\ detachVolumeCalls' = Log(detachVolumeCalls, data["Restore"])
            /\ \E ok \in BOOLEAN :
                  IF ok
                  THEN Goto("EBSWaitDetach", Put(data, "DetachVolume", "ok"))
                  ELSE Goto("ExecutionFailed", data)
       ELSE /\ Goto("ExecutionFailed", data)
            /\ UNCHANGED detachVolumeCalls
    /\ UNCHANGED <<task, volume, volumeAz, createVolumeCalls,
                   deleteVolumeCalls, submitJobCalls, jobFailed, deleteDone,
                   inUseCaught>>
    /\ UNCHANGED acbVars
    /\ UNCHANGED <<handlerVars, workerVars>>

EBSCleanupResultChoice ==
    /\ sub = "EBSCleanupResult"
    /\ Goto(EBSCleanupResult(data), data)
    /\ UNCHANGED task
    /\ UNCHANGED ebsHistory
    /\ UNCHANGED acbVars
    /\ UNCHANGED <<handlerVars, workerVars>>

----------------------------------------------------------------------------
(* The RDS / Aurora export machine *)

\* RDSExportStatus with the otherwise branch failing, as in DDBExportStatus.
RDSExportStatusOtherwiseFail(st) ==
    IF st = "COMPLETE" THEN "RDSExportSucceed"
    ELSE IF st = "IN_PROGRESS" \/ st = "STARTING" THEN "RDSExportWait"
    ELSE "RDSExportFailed"

\* RDSExportStatus with FAILED and CANCELED sent to the wait as well.
RDSExportStatusWaitOnFailure(st) ==
    IF st = "COMPLETE" THEN "RDSExportSucceed" ELSE "RDSExportWait"

\* The RDSExportStatus Choice on $.Status.ExportStatus.
RDSExportStatus(st) ==
    IF st = "COMPLETE" THEN "RDSExportSucceed"
    ELSE IF st = "FAILED" \/ st = "CANCELED" THEN "RDSExportFailed"
    ELSE "RDSExportWait"

\* rds:startExportTask; no retrier, no catcher.
RDSStartExportTask ==
    /\ sub = "RDSStartExportTask"
    /\ IF {"SnapshotArn", "S3BucketName", "S3Prefix"} \subseteq DOMAIN data
       THEN \E ok \in BOOLEAN :
               IF ok
               THEN Goto("RDSExportStatusTask", Put(data, "Export", "acb-export"))
               ELSE Goto("ExecutionFailed", data)
       ELSE Goto("ExecutionFailed", data)
    /\ UNCHANGED task
    /\ UNCHANGED ebsHistory
    /\ UNCHANGED acbVars
    /\ UNCHANGED <<handlerVars, workerVars>>

\* rds:describeExportTasks; the status goes to $.Status.ExportStatus.
RDSExportStatusTask ==
    /\ sub = "RDSExportStatusTask"
    /\ IF Has(data, "Export")
       THEN \E ok \in BOOLEAN, st \in ExportStatuses :
               IF ok
               THEN Goto("RDSExportStatus", Put(data, "Status", st))
               ELSE Goto("ExecutionFailed", data)
       ELSE Goto("ExecutionFailed", data)
    /\ UNCHANGED task
    /\ UNCHANGED ebsHistory
    /\ UNCHANGED acbVars
    /\ UNCHANGED <<handlerVars, workerVars>>

RDSExportStatusChoice ==
    /\ sub = "RDSExportStatus"
    /\ IF Has(data, "Status")
       THEN Goto(RDSExportStatus(data["Status"]), data)
       ELSE Goto("ExecutionFailed", data)
    /\ UNCHANGED task
    /\ UNCHANGED ebsHistory
    /\ UNCHANGED acbVars
    /\ UNCHANGED <<handlerVars, workerVars>>

\* Wait 30 minutes, then poll again.
RDSExportWait ==
    /\ sub = "RDSExportWait"
    /\ Goto("RDSExportStatusTask", data)
    /\ UNCHANGED task
    /\ UNCHANGED ebsHistory
    /\ UNCHANGED acbVars
    /\ UNCHANGED <<handlerVars, workerVars>>

----------------------------------------------------------------------------
(* The DynamoDB export machine *)

\* DDBExportStatus with the otherwise branch waiting, as in RDSExportStatus.
DDBExportStatusOtherwiseWait(st) ==
    IF st = "COMPLETED" THEN "DDBExportSucceed"
    ELSE IF st = "FAILED" \/ st = "CANCELED" THEN "DDBExportFailed"
    ELSE "DDBExportWait"

\* The DDBExportStatus Choice on $.Status.ExportStatus.
DDBExportStatus(st) ==
    IF st = "COMPLETED" THEN "DDBExportSucceed"
    ELSE IF st = "IN_PROGRESS" THEN "DDBExportWait"
    ELSE "DDBExportFailed"

\* dynamodb:exportTableToPointInTime, .addRetry().
DDBStartExportTask ==
    /\ sub = "DDBStartExportTask"
    /\ IF {"ResourceArn", "CreationDate", "S3BucketName", "S3Prefix"}
             \subseteq DOMAIN data
       THEN \E ok \in BOOLEAN :
               IF ok
               THEN Goto("DDBExportStatusTask", Put(data, "Export", "arn:export"))
               ELSE RetryOr("ExecutionFailed", data)
       ELSE Goto("ExecutionFailed", data)
    /\ UNCHANGED task
    /\ UNCHANGED ebsHistory
    /\ UNCHANGED acbVars
    /\ UNCHANGED <<handlerVars, workerVars>>

\* dynamodb:describeExport; the status goes to $.Status.ExportStatus.
DDBExportStatusTask ==
    /\ sub = "DDBExportStatusTask"
    /\ IF Has(data, "Export")
       THEN \E ok \in BOOLEAN, st \in ExportStatuses :
               IF ok
               THEN Goto("DDBExportStatus", Put(data, "Status", st))
               ELSE Goto("ExecutionFailed", data)
       ELSE Goto("ExecutionFailed", data)
    /\ UNCHANGED task
    /\ UNCHANGED ebsHistory
    /\ UNCHANGED acbVars
    /\ UNCHANGED <<handlerVars, workerVars>>

DDBExportStatusChoice ==
    /\ sub = "DDBExportStatus"
    /\ IF Has(data, "Status")
       THEN Goto(DDBExportStatus(data["Status"]), data)
       ELSE Goto("ExecutionFailed", data)
    /\ UNCHANGED task
    /\ UNCHANGED ebsHistory
    /\ UNCHANGED acbVars
    /\ UNCHANGED <<handlerVars, workerVars>>

\* Wait 30 minutes, then poll again.
DDBExportWait ==
    /\ sub = "DDBExportWait"
    /\ Goto("DDBExportStatusTask", data)
    /\ UNCHANGED task
    /\ UNCHANGED ebsHistory
    /\ UNCHANGED acbVars
    /\ UNCHANGED <<handlerVars, workerVars>>

----------------------------------------------------------------------------

Next ==
    \/ MetadataTask
    \/ SnapshotTypeChoice
    \/ RunMachineStart
    \/ RunMachineEnd
    \/ DeleteSnapshotTask
    \/ EBSRestoreTask
    \/ EBSReadyTask
    \/ EBSReadyChoice
    \/ EBSWait
    \/ EBSBatchJobTask
    \/ EBSCleanupTask
    \/ EBSForceDetach
    \/ EBSCleanupResultChoice
    \/ RDSStartExportTask
    \/ RDSExportStatusTask
    \/ RDSExportStatusChoice
    \/ RDSExportWait
    \/ DDBStartExportTask
    \/ DDBExportStatusTask
    \/ DDBExportStatusChoice
    \/ DDBExportWait

Spec == Init /\ [][Next]_vars

\* A status poll of the RDS machine that is answered with a terminal status.
RDSTerminalPoll ==
    /\ RDSExportStatusTask
    /\ sub' = "RDSExportStatus"
    /\ data'["Status"] \in {"COMPLETE", "FAILED", "CANCELED"}

\* A status poll of the DynamoDB machine that is answered with a status
\* other than IN_PROGRESS.
DDBTerminalPoll ==
    /\ DDBExportStatusTask
    /\ sub' = "DDBExportStatus"
    /\ data'["Status"] # "IN_PROGRESS"

\* The workflow under fair scheduling: Step Functions takes the next step of
\* a running execution, and an export that is polled again and again is
\* answered with a terminal status at some poll.
SpecLive ==
    /\ Init
    /\ [][Next]_vars
    /\ WF_vars(Next)
    /\ SF_vars(RDSTerminalPoll)
    /\ SF_vars(DDBTerminalPoll)

----------------------------------------------------------------------------
(* The metadata handler on its own: invocations on one event, or on two    *)
(* events side by side, over a wider range of events and of VALIDAZS than  *)
(* the executions of Spec start on.                                        *)

InitHandler ==
    /\ Idle
    /\ autoDeleteSnapshot = FALSE
    /\ \/ /\ event \in ValidationEvents \cup DateEvents \cup Events
                      \cup RecoveryPointEvents
          /\ event2 = NoEvent
          /\ VALIDAZS = VpcAzs
       \/ /\ event = BaseEvent("EBS")
          /\ event2 \in PairEvents
          /\ VALIDAZS = VpcAzs
       \/ /\ event = BaseEvent("DynamoDB")
          /\ event2 = NoEvent
          /\ VALIDAZS \in AzConfigs

\* One invocation of the handler on event.
Invoke ==
    /\ \E env \in Envs : result' = metadataHandler(event, env, VALIDAZS)
    /\ called' = called \cup Range(result'.calls)
    /\ azSeen' = IF result'.ok
                 THEN azSeen \cup {result'.value["AvailabilityZone"]}
                 ELSE azSeen
    /\ UNCHANGED <<VALIDAZS, event, event2, result2, workerVars>>
    /\ UNCHANGED acbVars
    /\ UNCHANGED subVars

\* One invocation of the handler on event2, when there is a second event.
Invoke2 ==
    /\ event2 # NoEvent
    /\ \E env \in Envs : result2' = metadataHandler(event2, env, VALIDAZS)
    /\ UNCHANGED <<VALIDAZS, event, event2, result, called, azSeen,
                   workerVars>>
    /\ UNCHANGED acbVars
    /\ UNCHANGED subVars

NextHandler == Invoke \/ Invoke2

SpecHandler == InitHandler /\ [][NextHandler]_vars

----------------------------------------------------------------------------
(* The steps of the archival worker *)

\* The process p takes the step that leaves it in w.
Becomes(p, w) == worker' = [worker EXCEPT ![p] = w]

\* No part of the workflow or of the handler moves.
WorkerOnly ==
    UNCHANGED <<acbVars, subVars, handlerVars>>

\* The argument checks and getInstanceId: the script goes on to
\* `retry 3 attachvolume`, or errorexit ends it.
Arguments(p) ==
    /\ worker[p].pc = "args"
    /\ \E ok \in BOOLEAN :
         Becomes(p, IF ok
                    THEN [worker[p] EXCEPT !.pc = "getnextdev",
                                           !.attempt_num = 1]
                    ELSE Exit(worker[p], 1))
    /\ UNCHANGED <<lockfiles, blockdevs>>
    /\ WorkerOnly

\* getnextdev: blkdev="" and the for loop starts at its first letter.
getnextdev(p) ==
    /\ worker[p].pc = "getnextdev"
    /\ Becomes(p, [worker[p] EXCEPT !.pc = "test -f", !.blkdev = None,
                                    !.l = 1])
    /\ UNCHANGED <<lockfiles, blockdevs>>
    /\ WorkerOnly

\* devlockfile=${IROOT}/tmp/ebsdevlock.${l}; [ ! -f $devlockfile ]
TestLockFile(p) ==
    /\ worker[p].pc = "test -f"
    /\ LET w == [worker[p] EXCEPT !.devlockfile = Letters[worker[p].l]]
       IN Becomes(p, IF w.devlockfile \notin lockfiles
                     THEN [w EXCEPT !.pc = "touch"]
                     ELSE NextLetter(w))
    /\ UNCHANGED <<lockfiles, blockdevs>>
    /\ WorkerOnly

\* touch $devlockfile
Touch(p) ==
    /\ worker[p].pc = "touch"
    /\ lockfiles' = lockfiles \cup {worker[p].devlockfile}
    /\ Becomes(p, [worker[p] EXCEPT
                     !.pc = "test -b",
                     !.created = @ \cup {worker[p].devlockfile}])
    /\ UNCHANGED blockdevs
    /\ WorkerOnly

\* [ ! -b ${IROOT}/dev/xvd${l} ]: blkdev is set and the loop breaks, or
\* the loop goes on.
TestBlockDevice(p) ==
    /\ worker[p].pc = "test -b"
    /\ Becomes(p, IF worker[p].devlockfile \notin blockdevs
                  THEN [worker[p] EXCEPT !.pc = "test blkdev",
                                         !.blkdev = worker[p].devlockfile]
                  ELSE NextLetter(worker[p]))
    /\ UNCHANGED <<lockfiles, blockdevs>>
    /\ WorkerOnly

\* The end of getnextdev: errorexit when blkdev is empty.
TestBlkdev(p) ==
    /\ worker[p].pc = "test blkdev"
    /\ Becomes(p, IF worker[p].blkdev = None
                  THEN Exit(worker[p], 1)
                  ELSE [worker[p] EXCEPT !.pc = "attach-volume"])
    /\ UNCHANGED <<lockfiles, blockdevs>>
    /\ WorkerOnly

\* Another process has a volume attached at the device name of p.
DeviceInUse(p) ==
    \E q \in Procs \ {p} :
        worker[q].attached /\ worker[q].blkdev = worker[p].blkdev

\* aws ec2 attach-volume --device $blkdev, as the command of
\* `retry 3 attachvolume`, and line 84 after the helper's return.  The
\* service refuses a device name that is in use on the instance.
attachvolume(p) ==
    /\ worker[p].pc = "attach-volume"
    /\ \E ok \in IF DeviceInUse(p) THEN {FALSE} ELSE BOOLEAN :
         LET w == [worker[p] EXCEPT !.attachCalls = @ + 1,
                                    !.attached = ok,
                                    !.everAttached = @ \/ ok]
             r == retryUntil(AttachAttempts, w.attempt_num, ok)
         IN Becomes(p, CASE r = "return 0" -> [w EXCEPT !.pc = "mktemp"]
                         [] r = "return 1" -> [w EXCEPT !.pc = "detachandexit"]
                         [] OTHER -> [w EXCEPT !.pc = "getnextdev",
                                               !.attempt_num = @ + 1])
    /\ UNCHANGED <<lockfiles, blockdevs>>
    /\ WorkerOnly

\* detachandexit without its detach-volume call.
detachandexitNoDetach(p) ==
    /\ worker[p].pc = "detachandexit"
    /\ lockfiles' = lockfiles \ {worker[p].devlockfile}
    /\ Becomes(p, Exit(worker[p], 1))
    /\ UNCHANGED blockdevs
    /\ WorkerOnly

\* detachandexit: aws ec2 detach-volume, rm $devlockfile, errorexit.
detachandexit(p) ==
    /\ worker[p].pc = "detachandexit"
    /\ lockfiles' = lockfiles \ {worker[p].devlockfile}
    /\ blockdevs' = IF worker[p].attached
                    THEN blockdevs \ {worker[p].blkdev} ELSE blockdevs
    /\ Becomes(p, Exit([worker[p] EXCEPT !.detachCalls = @ + 1,
                                         !.attached = FALSE], 1))
    /\ WorkerOnly

\* mntdir=`mktemp -d` || detachandexit
MkTemp(p) ==
    /\ worker[p].pc = "mktemp"
    /\ \E ok \in BOOLEAN :
         Becomes(p, [worker[p] EXCEPT
                       !.pc = IF ok THEN "inotifywait" ELSE "detachandexit"])
    /\ UNCHANGED <<lockfiles, blockdevs>>
    /\ WorkerOnly

\* The wait for a close event on the device file, at most 300 seconds, and
\* the test of line 101.  found is the device name asked for, or an NVMe
\* device, or stays unset when the wait times out; unless found is the name
\* asked for, lsblk must list the volume's serial number (for an unset
\* found it lists every device).  The block device file of the name asked
\* for exists afterwards or not.
WaitForDevice(p) ==
    /\ worker[p].pc = "inotifywait"
    /\ \E f \in {"xvd", "nvme", ""}, ok, xvd \in BOOLEAN :
         /\ f = "xvd" => (ok /\ xvd)
         /\ f = "nvme" => ~xvd
         /\ ~ok => ~xvd
         /\ Becomes(p, [worker[p] EXCEPT
                          !.found = f,
                          !.pc = IF ok THEN "mount" ELSE "detachandexit",
                          !.attempt_num = 1])
         /\ blockdevs' = IF xvd THEN blockdevs \cup {worker[p].blkdev}
                         ELSE blockdevs
    /\ UNCHANGED lockfiles
    /\ WorkerOnly

\* mount $found $mntdir, as the command of `retry 5 mount`, and the test
\* of the helper's return on line 104; without a device name the mount
\* fails.
Mount(p) ==
    /\ worker[p].pc = "mount"
    /\ \E ok \in IF worker[p].found = "" THEN {FALSE} ELSE BOOLEAN :
         LET w == [worker[p] EXCEPT !.mountCalls = @ + 1]
             r == retryUntil(MountAttempts, w.attempt_num, ok)
         IN Becomes(p, CASE r = "return 0" -> [w EXCEPT !.pc = "tar",
                                                   !.mounted = TRUE]
                         [] r = "return 1" -> [w EXCEPT !.pc = "dd"]
                         [] OTHER -> [w EXCEPT !.attempt_num = @ + 1])
    /\ UNCHANGED <<lockfiles, blockdevs>>
    /\ WorkerOnly

\* The objects an upload to key leaves under the prefix, after those in
\* written, with both keys written by either upload.
UploadBoth(written, key) == {"backup.tar.gz", "rawbackup.gz"}

\* aws s3 cp - $s3path/<key>: the objects under the prefix afterwards.
Upload(written, key) == written \cup {key}

\* tar -cz -C $mntdir . | aws s3 cp - $s3path/backup.tar.gz || detachandexit
Tar(p) ==
    /\ worker[p].pc = "tar"
    /\ \E ok \in BOOLEAN :
         Becomes(p, IF ok
                    THEN [worker[p] EXCEPT
                            !.pc = "umount",
                            !.written = Upload(@, "backup.tar.gz")]
                    ELSE [worker[p] EXCEPT !.pc = "detachandexit"])
    /\ UNCHANGED <<lockfiles, blockdevs>>
    /\ WorkerOnly

\* umount $mntdir || detachandexit
Umount(p) ==
    /\ worker[p].pc = "umount"
    /\ \E ok \in BOOLEAN :
         Becomes(p, [worker[p] EXCEPT
                       !.pc = IF ok THEN "detach-volume" ELSE "detachandexit"])
    /\ UNCHANGED <<lockfiles, blockdevs>>
    /\ WorkerOnly

\* dd bs=10M if=$found | gzip | aws s3 cp - $s3path/rawbackup.gz
\*   || detachandexit
Dd(p) ==
    /\ worker[p].pc = "dd"
    /\ \E ok \in BOOLEAN :
         Becomes(p, IF ok
                    THEN [worker[p] EXCEPT
                            !.pc = "detach-volume",
                            !.written = Upload(@, "rawbackup.gz")]
                    ELSE [worker[p] EXCEPT !.pc = "detachandexit"])
    /\ UNCHANGED <<lockfiles, blockdevs>>
    /\ WorkerOnly

\* aws ec2 detach-volume --volume-id $volumeid, on line 113.
DetachVolume(p) ==
    /\ worker[p].pc = "detach-volume"
    /\ blockdevs' = IF worker[p].attached
                    THEN blockdevs \ {worker[p].blkdev} ELSE blockdevs
    /\ Becomes(p, [worker[p] EXCEPT !.pc = "rm", !.detachCalls = @ + 1,
                                    !.attached = FALSE])
    /\ UNCHANGED lockfiles
    /\ WorkerOnly

\* rm $devlockfile, the last command: its status is the script's.
RmLockFile(p) ==
    /\ worker[p].pc = "rm"
    /\ lockfiles' = lockfiles \ {worker[p].devlockfile}
    /\ Becomes(p, Exit(worker[p],
                       IF worker[p].devlockfile \in lockfiles THEN 0 ELSE 1))
    /\ UNCHANGED blockdevs
    /\ WorkerOnly

\* The worker processes alone, from a host without lock files or volumes.
InitWorker ==
    /\ Idle
    /\ autoDeleteSnapshot = FALSE
    /\ VALIDAZS = VpcAzs
    /\ event = NoEvent
    /\ event2 = NoEvent

NextWorker ==
    \E p \in Procs :
        \/ Arguments(p)
        \/ getnextdev(p)
        \/ TestLockFile(p)
        \/ Touch(p)
        \/ TestBlockDevice(p)
        \/ TestBlkdev(p)
        \/ attachvolume(p)
        \/ MkTemp(p)
        \/ WaitForDevice(p)
        \/ Mount(p)
        \/ Tar(p)
        \/ Umount(p)
        \/ Dd(p)
        \/ DetachVolume(p)
        \/ RmLockFile(p)
        \/ detachandexit(p)

SpecWorker == InitWorker /\ [][NextWorker]_vars

----------------------------------------------------------------------------
(* Properties *)

\* The export sub-execution has reached a terminal state that the Run task
\* has not yet collected.
Ended == ExecutionStatus(sub) # "RUNNING"

EBSEnded == Ended /\ acb = "Run EBS Backup Machine"

DeleteIssuedFor(v) ==
    \E i \in 1..Len(deleteVolumeCalls) : deleteVolumeCalls[i] = v

Field(d, k) == IF Has(d, k) THEN d[k] ELSE None

\* C1: deleteRecoveryPoint is never called, and DeleteSnapshotTask is never
\* entered, unless the export sub-execution of the job ended Succeeded; an
\* execution that failed in the metadata task, the router or the export
\* sub-execution has made no deleteRecoveryPoint call.
C1_DeleteOnlyAfterSuccess ==
    /\ (acb = "DeleteSnapshotTask" => lastOutcome = "SUCCEEDED")
    /\ (Len(deleteRecoveryPointCalls) > 0 => lastOutcome = "SUCCEEDED")
    /\ (acb = "Failed" /\ lastOutcome # "SUCCEEDED"
          => deleteRecoveryPointCalls = <<>>)

\* C1 witness: auto-delete is on, a first sub-execution failed, the retried
\* one succeeded, and the delete call was then issued.
C1_Witness ==
    /\ autoDeleteSnapshot
    /\ executions > 1
    /\ lastOutcome = "SUCCEEDED"
    /\ Len(deleteRecoveryPointCalls) = 1

\* C2: a deleteRecoveryPoint call is made only with auto-delete enabled and
\* the sub-execution Succeeded; with the flag enabled exactly one call has
\* been made when the execution leaves DeleteSnapshotTask and when it is in
\* Success; with the flag disabled Success is reached with no call.
C2_DeleteIffSuccessAndFlag ==
    /\ (Len(deleteRecoveryPointCalls) > 0
          => autoDeleteSnapshot /\ lastOutcome = "SUCCEEDED")
    /\ Len(deleteRecoveryPointCalls) <= 1
    /\ (acb = "Success"
          => /\ lastOutcome = "SUCCEEDED"
             /\ Len(deleteRecoveryPointCalls) =
                   IF autoDeleteSnapshot THEN 1 ELSE 0)
    /\ (autoDeleteSnapshot /\ lastOutcome = "SUCCEEDED"
          => \/ acb = "DeleteSnapshotTask" /\ deleteRecoveryPointCalls = <<>>
             \/ acb \in {"Success", "Failed"}
                   /\ Len(deleteRecoveryPointCalls) = 1)

\* C2 witness: Success reached with the flag enabled after one delete call.
C2_Witness ==
    /\ acb = "Success"
    /\ autoDeleteSnapshot
    /\ Len(deleteRecoveryPointCalls) = 1

\* C3 (as claimed): when an EBS execution in which createVolume returned a
\* volume id has ended, a deleteVolume call for that volume was issued.
C3_VolumeNeverLeftBehind ==
    EBSEnded /\ volume # None => DeleteIssuedFor(volume)

\* C4 (as claimed): after a readiness poll, 'available' leads to the
\* archival job and only 'available' does, 'creating' leads to the wait and
\* never to a terminal state, and an execution that ended on any other
\* polled status has issued a deleteVolume call first.
C4_ReadinessOutcomes ==
    /\ (sub = "EBSBatchJobTask" => Field(data, "Ready") = "available")
    /\ (sub = "EBSReadyWait" => Field(data, "Ready") = "creating")
    /\ (Field(data, "Ready") = "creating" => ~Ended)
    /\ (EBSEnded /\ Has(data, "Ready")
              /\ Field(data, "Ready") \notin {"available", "creating"}
          => ExecutionStatus(sub) = "FAILED" /\ deleteVolumeCalls # <<>>)

\* C5: every archival job is submitted to the queue whose compute
\* environment lies in the availability zone the volume was restored in,
\* for the volume that was restored.
C5_AZAffinity ==
    \A i \in 1..Len(submitJobCalls) :
        /\ submitJobCalls[i].jobQueue.computeEnvironment.subnetAz = volumeAz
        /\ submitJobCalls[i].jobQueue = jqs[volumeAz]
        /\ submitJobCalls[i].volume = volume

\* C5 witness: a job was submitted for a volume restored in az-c.
C5_Witness ==
    /\ Len(submitJobCalls) = 1
    /\ volumeAz = "az-c"
    /\ submitJobCalls[1].jobQueue.computeEnvironment.subnetAz = "az-c"

\* C6: the EBS machine is in EBSSucceed only if a deleteVolume call
\* completed and $.Error is absent; an EBS execution that ended after its
\* archival job failed, or without a completed deleteVolume, ended Failed.
C6_SucceedOnlyAfterCleanup ==
    /\ (sub = "EBSSucceed"
          => deleteDone /\ ~Has(data, "Error") /\ ~jobFailed)
    /\ (EBSEnded /\ (jobFailed \/ ~deleteDone)
          => ExecutionStatus(sub) = "FAILED")

\* C6 witness: the archival job failed, the volume was deleted, and the
\* execution is in EBSFail.
C6_Witness == sub = "EBSFail" /\ jobFailed /\ deleteDone

\* C7: once the archival job has failed, the execution is in cleanup with
\* $.Error recorded next to the restored volume id, or it has issued the
\* deleteVolume call for that volume; it never reaches a Succeed state and
\* its outcome is Failed.
C7_JobFailurePreserved ==
    jobFailed =>
        /\ (sub = "EBSCleanupTask"
              => /\ Has(data, "Error")
                 /\ Field(data, "Restore") = volume
                 /\ volume # None)
        /\ (sub # "EBSCleanupTask" => DeleteIssuedFor(volume))
        /\ sub \notin SucceedStates
        /\ (Ended => ExecutionStatus(sub) = "FAILED")
        /\ (sub = None => lastOutcome = "FAILED")

\* C7 witness: after a failed archival job the delete of the restored
\* volume was issued and completed, and the execution ended in EBSFail.
C7_Witness ==
    /\ jobFailed
    /\ sub = "EBSFail"
    /\ deleteVolumeCalls = <<volume>>
    /\ Has(data, "Error")

\* C8 (as claimed): once deleteVolume has failed with VolumeInUse and the
\* catcher has been taken, the machine force-detaches: it is in
\* EBSForceDetach or has issued a detachVolume call.
C8_ForceDetachOnVolumeInUse ==
    inUseCaught => sub = "EBSForceDetach" \/ detachVolumeCalls # <<>>

\* C9: in the RDS machine the step after a status poll goes to
\* RDSExportSucceed on COMPLETE, to RDSExportFailed on FAILED or CANCELED,
\* and to RDSExportWait on every other status; RDSExportWait is followed by
\* another poll.
C9_RDSPolling ==
    [][/\ (sub = "RDSExportStatus" /\ Field(data, "Status") = "COMPLETE"
             => sub' = "RDSExportSucceed")
       /\ (sub = "RDSExportStatus"
               /\ Field(data, "Status") \in {"FAILED", "CANCELED"}
             => sub' = "RDSExportFailed")
       /\ (sub = "RDSExportStatus"
               /\ Field(data, "Status") \notin {"COMPLETE", "FAILED", "CANCELED"}
             => sub' = "RDSExportWait")
       /\ (sub = "RDSExportWait" => sub' = "RDSExportStatusTask")]_vars

\* C9 witness: a status neither machine names was polled and the RDS
\* machine is waiting for the next poll.
C9_Witness ==
    sub = "RDSExportWait" /\ Field(data, "Status") = "UNRECOGNIZED"

\* C10 (as claimed): the DynamoDB machine is in DDBExportSucceed only after
\* COMPLETED was polled and in DDBExportFailed only after FAILED or CANCELED
\* was polled.
C10_DDBTerminatesOnlyOnTerminalStatus ==
    /\ (sub = "DDBExportSucceed" => Field(data, "Status") = "COMPLETED")
    /\ (sub = "DDBExportFailed"
          => Field(data, "Status") \in {"FAILED", "CANCELED"})

\* C10 (amended): in the DynamoDB machine the step after a status poll goes
\* to DDBExportSucceed on COMPLETED, to DDBExportWait on IN_PROGRESS, and to
\* DDBExportFailed on every other status; DDBExportWait is followed by
\* another poll.
C10_DDBPolling ==
    [][/\ (sub = "DDBExportStatus" /\ Field(data, "Status") = "COMPLETED"
             => sub' = "DDBExportSucceed")
       /\ (sub = "DDBExportStatus" /\ Field(data, "Status") = "IN_PROGRESS"
             => sub' = "DDBExportWait")
       /\ (sub = "DDBExportStatus"
               /\ Field(data, "Status") \notin {"COMPLETED", "IN_PROGRESS"}
             => sub' = "DDBExportFailed")
       /\ (sub = "DDBExportWait" => sub' = "DDBExportStatusTask")]_vars

\* C10 witness: a status the machine does not name was polled and the
\* execution is in DDBExportFailed.
C10_Witness ==
    sub = "DDBExportFailed" /\ Field(data, "Status") = "UNRECOGNIZED"

----------------------------------------------------------------------------
(* Event intake and metadata resolution *)

\* C11: for a job whose state is not COMPLETED every invocation of the
\* handler fails with the error whose message carries the job's id and its
\* actual state, returns no metadata, and nothing downstream happens: no
\* external call of the handler (bucket listing, tag or snapshot lookup) and
\* no export sub-execution.
C11_TerminatedJobRejected ==
    event.state # "COMPLETED" =>
        /\ called = {}
        /\ executions = 0
        /\ sub = None
        /\ acb \in {"MetadataTask", "Failed"}
        /\ Invoked(result) =>
              /\ ~result.ok
              /\ result.error.name = "Error"
              /\ result.error.text =
                     "Backup job ${backupJobId} terminated in state ${state}"
              /\ result.error.value = event.backupJobId
              /\ result.error.word = event.state
              /\ result.calls = <<>>
              /\ result.value = Empty

\* A job that FAILED, rejected by every attempt of MetadataTask.
C11_Witness ==
    /\ event.state = "FAILED"
    /\ event.backupJobId = Str(Job42)
    /\ Invoked(result)
    /\ acb = "Failed"

\* The vault names of VaultValues that match the pattern, and the strings
\* of ArnValues and of the recovery points that are ARNs.
C12_GoodVaults ==
    {Str(VaultOk), Str(<<"v", "a">>), Str([i \in 1..VaultNameMaxLen |-> "a"])}

C12_GoodArns ==
    {Str(ArnVolume), Str(ArnColon), Str(ArnOther), Str(RecoveryPoint),
     Str(RecoveryPointNested), Str(RecoveryPointTrailing)}

\* What the claim lists: the vault name matches, both ARNs are ARNs, both
\* timestamp fields are numbers.
C12_Listed ==
    /\ event.backupVaultName \in C12_GoodVaults
    /\ event.resourceArn \in C12_GoodArns
    /\ event.recoveryPointArn \in C12_GoodArns
    /\ event.seconds.type = "number"
    /\ event.nanos.type = "number"

C12_Rejected ==
    /\ ~result.ok
    /\ result.error.name = "AssertionError"
    /\ result.calls = <<>>
    /\ result.value = Empty

\* Validation passed: the handler went on to list the buckets.
C12_Passed ==
    /\ result.error.name # "AssertionError"
    /\ Len(result.calls) >= 1
    /\ result.calls[1] = "listBuckets"

\* C12 as stated: a COMPLETED job fails validation before any external call
\* when the vault name does not match, an ARN is no ARN or a timestamp field
\* is no number, and passes validation when all of these hold.
C12_ValidationAsStated ==
    (event.state = "COMPLETED" /\ Invoked(result)) =>
        IF C12_Listed THEN C12_Passed ELSE C12_Rejected

\* C12 (amended): a COMPLETED job fails validation before any external call
\* when backupJobId is no string, the vault name does not match, an ARN is
\* no ARN or a timestamp field is no number, and passes validation when
\* none of these is the case.
C12_Validation ==
    (event.state = "COMPLETED" /\ Invoked(result)) =>
        IF C12_Listed /\ event.backupJobId.type = "string"
        THEN C12_Passed ELSE C12_Rejected

\* A vault name of 51 characters, refused.
C12_Witness ==
    /\ event.state = "COMPLETED"
    /\ event.backupVaultName.type = "string"
    /\ Len(event.backupVaultName.str) = VaultNameMaxLen + 1
    /\ event.backupJobId = Str(Job42)
    /\ event.resourceArn = Str(ArnVolume)
    /\ event.recoveryPointArn = Str(RecoveryPoint)
    /\ event.seconds.type = "number" /\ event.nanos.type = "number"
    /\ C12_Rejected

\* C13: an invocation that is answered a bucket list without the configured
\* bucket fails with the ownership error, having issued no call but
\* listBuckets (no tag or snapshot lookup), and returns no metadata; and an
\* export sub-execution exists only after an invocation whose bucket list
\* held the configured bucket.
C13_BucketOwnership ==
    /\ (Invoked(result) /\ result.calls # <<>>
           /\ "listBuckets" \notin result.failed /\ BUCKET \notin result.listed)
          => /\ ~result.ok
             /\ result.error.name = "Error"
             /\ result.error.text =
                    "Backup bucket ${BUCKET} is not owned by this account."
             /\ result.error.word = BUCKET
             /\ result.calls = <<"listBuckets">>
             /\ result.value = Empty
             /\ acb \in {"MetadataTask", "Failed"}
    /\ (executions > 0 \/ sub # None \/ acbData # Empty)
          => result.ok /\ BUCKET \in result.listed

\* A well-formed completed job, every attempt answered a bucket list that
\* lacks the configured bucket.
C13_Witness ==
    /\ event = BaseEvent("EBS")
    /\ acb = "Failed"
    /\ result.listed = {"other"}
    /\ called = {"listBuckets"}
    /\ executions = 0

\* Both events were resolved.
BothResolved == result.ok /\ result2.ok

\* The UTC day an event's creationDate falls on, counted from the epoch.
DayOf(ev) == (ev.seconds.num + ev.nanos.num \div 1000000000) \div SecondsPerDay

\* A string with every ":" read as "/".
Slashed(s) == [i \in 1..Len(s) |-> IF s[i] = ":" THEN "/" ELSE s[i]]

\* C14 as stated: two resolved jobs that differ in any of resourceArn,
\* creationDate and backupJobId never have the same S3Prefix.
C14_PrefixUniqueAsStated ==
    (BothResolved
       /\ <<event.resourceArn, event.seconds, event.nanos, event.backupJobId>>
            # <<event2.resourceArn, event2.seconds, event2.nanos,
                 event2.backupJobId>>)
      => result.value["S3Prefix"] # result2.value["S3Prefix"]

\* C14 (amended): two resolved jobs whose job ids hold no "/" have the same
\* S3Prefix exactly when they have the same backupJobId, creationDates of
\* the same UTC day and resourceArns that are equal once ":" is read as "/";
\* so jobs with different ids never share a prefix.
C14_PrefixUnique ==
    (BothResolved
       /\ "/" \notin Range(event.backupJobId.str)
       /\ "/" \notin Range(event2.backupJobId.str))
      => (result.value["S3Prefix"] = result2.value["S3Prefix"]
            <=> /\ event.backupJobId = event2.backupJobId
                /\ DayOf(event) = DayOf(event2)
                /\ Slashed(event.resourceArn.str) = Slashed(event2.resourceArn.str))

\* Two jobs on one resource, created at the same instant, with different
\* ids, both resolved.
C14_Witness ==
    /\ BothResolved
    /\ event.backupJobId = Str(Job42)
    /\ event2.backupJobId = Str(JobOther)
    /\ event.resourceArn = event2.resourceArn
    /\ event.seconds = event2.seconds
    /\ result.value["S3Prefix"] # result2.value["S3Prefix"]

\* C15: two resolved jobs with the same resourceArn, creationDate and
\* backupJobId have the same S3Prefix, whatever their resource types, the
\* availability zones drawn for them, their tags and engines and the
\* answers of their lookups.
C15_PrefixDeterministic ==
    (BothResolved
       /\ event.resourceArn = event2.resourceArn
       /\ event.seconds = event2.seconds
       /\ event.nanos = event2.nanos
       /\ event.backupJobId = event2.backupJobId)
      => result.value["S3Prefix"] = result2.value["S3Prefix"]

\* The same resource, instant and job id resolved as an EBS volume with
\* tags and as a database snapshot without, in different availability zones
\* and with a lookup of the second that fails later on.
C15_Witness ==
    /\ BothResolved
    /\ event.resourceArn = event2.resourceArn
    /\ event.seconds = event2.seconds
    /\ event.nanos = event2.nanos
    /\ event.backupJobId = event2.backupJobId
    /\ event.resourceType = "EBS" /\ event2.resourceType = "RDS"
    /\ result.value["AvailabilityZone"] # result2.value["AvailabilityZone"]
    /\ result.value["Tags"] # result2.value["Tags"]
    /\ result2.failed # {}
    /\ result.value["S3Prefix"] = result2.value["S3Prefix"]

\* The availability zones VALIDAZS lists: the names between its commas (the
\* empty name when VALIDAZS is the empty string).
Configured ==
    IF VALIDAZS = <<>> THEN {""}
    ELSE {VALIDAZS[i] : i \in DOMAIN VALIDAZS} \ {","}

\* C16: every AvailabilityZone the handler returns is a member of the
\* configured list, never undefined or outside it, whatever the length of
\* the list; the witness shows every member of the list returned.
C16_AvailabilityZoneFromList ==
    /\ azSeen \subseteq Configured
    /\ "undefined" \notin azSeen
    /\ result.ok => /\ Has(result.value, "AvailabilityZone")
                    /\ result.value["AvailabilityZone"] \in Configured

\* Each of three configured zones has been returned.
C16_Witness ==
    /\ VALIDAZS = VpcAzs
    /\ Cardinality(Configured) = 3
    /\ azSeen = Configured

\* The calendar, stated without the handler's arithmetic.
LeapYear(y) == (y % 4 = 0 /\ y % 100 # 0) \/ y % 400 = 0

DaysInMonth(y, m) ==
    CASE m \in {4, 6, 9, 11} -> 30
      [] m = 2 -> (IF LeapYear(y) THEN 29 ELSE 28)
      [] OTHER -> 31

LeapDaysBefore(y) == (y - 1) \div 4 - (y - 1) \div 100 + (y - 1) \div 400

RECURSIVE DaysBeforeMonth(_, _)
DaysBeforeMonth(y, m) ==
    IF m <= 1 THEN 0 ELSE DaysBeforeMonth(y, m - 1) + DaysInMonth(y, m - 1)

\* Days from 1970-01-01 to the day d of month m of year y.
DayNumber(y, m, d) ==
    365 * (y - 1970) + LeapDaysBefore(y) - LeapDaysBefore(1970)
      + DaysBeforeMonth(y, m) + d - 1

\* The number a string of decimal digits writes (-1 for any other string).
RECURSIVE Decimal(_)
Decimal(s) ==
    IF Len(s) = 0 \/ \E i \in DOMAIN s : s[i] \notin Range(Digits) THEN -1
    ELSE LET last == CHOOSE n \in 0..9 : Digits[n + 1] = s[Len(s)]
         IN  IF Len(s) = 1 THEN last
             ELSE 10 * Decimal(SubSeq(s, 1, Len(s) - 1)) + last

\* The pieces of the returned S3Prefix, and the last four of them.
PrefixPieces == split(result.value["S3Prefix"], "/")

PrefixTail == SubSeq(PrefixPieces, Len(PrefixPieces) - 3, Len(PrefixPieces))

\* A piece is the two characters of tag followed by n digits.
Tagged(piece, tag, n) ==
    /\ Len(piece) = n + 2
    /\ SubSeq(piece, 1, 2) = tag
    /\ Decimal(SubSeq(piece, 3, n + 2)) >= 0

\* C17: the S3Prefix of a resolved job ends in Y=<4 digits>/M=<2 digits>/
\* D=<2 digits>/<backupJobId>, the digits being the year, the month counted
\* from 1 and the day of the UTC date on which the instant seconds after the
\* epoch falls; for seconds 1700000000, nanos 0 and job id job-42 it ends in
\* /Y=2023/M=11/D=14/job-42.
C17_DateEncoding ==
    result.ok =>
        /\ Len(PrefixPieces) >= 5
        /\ Tagged(PrefixTail[1], <<"Y", "=">>, 4)
        /\ Tagged(PrefixTail[2], <<"M", "=">>, 2)
        /\ Tagged(PrefixTail[3], <<"D", "=">>, 2)
        /\ PrefixTail[4] = event.backupJobId.str
        /\ LET y == Decimal(SubSeq(PrefixTail[1], 3, 6))
               m == Decimal(SubSeq(PrefixTail[2], 3, 4))
               d == Decimal(SubSeq(PrefixTail[3], 3, 4))
           IN  /\ m \in 1..12
               /\ d \in 1..DaysInMonth(y, m)
               /\ DayNumber(y, m, d) = event.seconds.num \div SecondsPerDay
        /\ (event.seconds = Num(1700000000) /\ event.nanos = Num(0)
              /\ event.backupJobId = Str(Job42))
             => PrefixTail = << <<"Y", "=", "2", "0", "2", "3">>,
                                <<"M", "=", "1", "1">>,
                                <<"D", "=", "1", "4">>,
                                <<"j", "o", "b", "-", "4", "2">> >>

\* The job created at 1700000000 with id job-42, resolved.
C17_Witness ==
    /\ result.ok
    /\ event.seconds = Num(1700000000)
    /\ event.nanos = Num(0)
    /\ event.backupJobId = Str(Job42)
    /\ PrefixTail[1] = <<"Y", "=", "2", "0", "2", "3">>
    /\ PrefixTail[2] = <<"M", "=", "1", "1">>
    /\ PrefixTail[3] = <<"D", "=", "1", "4">>

----------------------------------------------------------------------------
(* Routing *)

\* C18: a completed job whose resourceType is none of EBS, Aurora, RDS and
\* DynamoDB is never resolved: an invocation that comes to the switch throws
\* the error whose message carries the type as it was given, and the
\* execution starts no export sub-execution, never ends in Success and, once
\* MetadataTask has given up, has ended Failed.
C18_UnknownTypeFailsLoudly ==
    (event.state = "COMPLETED" /\ event.resourceType \notin ResourceTypes) =>
        /\ ~result.ok
        /\ (Invoked(result) /\ BUCKET \in result.listed) =>
              /\ result.error.name = "Error"
              /\ result.error.text = "Invalid resourceType: ${resourceType}"
              /\ result.error.word = event.resourceType
        /\ acb \in {"MetadataTask", "Failed"}
        /\ acbData = Empty
        /\ executions = 0
        /\ sub = None

\* The job of type EFS, refused by every attempt of MetadataTask.
C18_Witness ==
    /\ event = BaseEvent(InvalidResourceType)
    /\ acb = "Failed"
    /\ result.error.word = InvalidResourceType
    /\ BUCKET \in result.listed

\* The Run task of the protocol a resource type belongs to.
ProtocolOf(rt) ==
    CASE rt = "EBS"               -> "Run EBS Backup Machine"
      [] rt \in {"RDS", "Aurora"} -> "Run RDS Export Machine"
      [] rt = "DynamoDB"          -> "Run DDB Export Machine"
      [] OTHER                    -> None

\* The states of the machine a Run task starts.
StatesOf(run) ==
    CASE run = "Run EBS Backup Machine" ->
           {"EBSRestoreTask", "EBSReadyTask", "EBS Ready?", "EBSReadyWait",
            "EBSReadyFailed", "EBSBatchJobTask", "EBSCleanupTask",
            "EBSForceDetach", "EBSWaitDetach", "EBSCleanupResult",
            "EBSSucceed", "EBSFail", "ExecutionFailed"}
      [] run = "Run RDS Export Machine" ->
           {"RDSStartExportTask", "RDSExportStatusTask", "RDSExportStatus",
            "RDSExportWait", "RDSExportSucceed", "RDSExportFailed",
            "ExecutionFailed"}
      [] run = "Run DDB Export Machine" ->
           {"DDBStartExportTask", "DDBExportStatusTask", "DDBExportStatus",
            "DDBExportWait", "DDBExportSucceed", "DDBExportFailed",
            "ExecutionFailed"}
      [] OTHER -> {}

\* C19: the router sends a resolved job to the protocol of its type and to
\* no other: the Run task the execution is in, and the machine whose states
\* the sub-execution is in, are those of the job's resourceType (EBS: the EBS
\* machine; RDS and Aurora: the RDS machine; DynamoDB: the DynamoDB
\* machine), and a job that is no EBS job never has a volume restored or an
\* archival job submitted.
C19_RouterDispatch ==
    /\ acb \in RunTasks => acb = ProtocolOf(event.resourceType)
    /\ sub # None =>
          /\ acb = ProtocolOf(event.resourceType)
          /\ sub \in StatesOf(ProtocolOf(event.resourceType))
    /\ executions > 0 => event.resourceType \in ResourceTypes
    /\ event.resourceType # "EBS" =>
          /\ createVolumeCalls = <<>>
          /\ submitJobCalls = <<>>
          /\ volume = None

\* An Aurora job whose export ran in the RDS machine and succeeded.
C19_Witness ==
    /\ event.resourceType = "Aurora"
    /\ acb = "Run RDS Export Machine"
    /\ sub = "RDSExportSucceed"
    /\ executions = 1

\* C20: a successful invocation on an Aurora or RDS job has both of its
\* lookups answered, and answered without an error: none is pending and none
\* has failed when the handler returns metadata.
C20_BothLookupsMustSucceed ==
    (result.ok /\ event.resourceType \in {"Aurora", "RDS"}) =>
        /\ result.pending = {}
        /\ result.failed = {}

----------------------------------------------------------------------------
(* Error handling *)

\* C21: an invocation of the handler that fails with a validation error, the
\* ownership error or the error on an unsupported type (a thrown Error or a
\* failed assert) fails the execution at once: MetadataTask is not run again.
C21_RejectionNotRetried ==
    (Invoked(result) /\ ~result.ok
       /\ result.error.name \in {"Error", "AssertionError"})
      => acb = "Failed"

\* The task whose call was issued from the run state d: the fields its
\* parameters read are present.
CallIssued(s, d) ==
    CASE s = "EBSRestoreTask" ->
           {"AvailabilityZone", "SnapshotId"} \subseteq DOMAIN d
      [] s = "RDSStartExportTask" ->
           {"SnapshotArn", "S3BucketName", "S3Prefix"} \subseteq DOMAIN d
      [] s = "DDBStartExportTask" ->
           {"ResourceArn", "S3BucketName", "S3Prefix"} \subseteq DOMAIN d
      [] s = "EBSCleanupTask" -> Has(d, "Restore")
      [] OTHER -> FALSE

\* C22: a failed createVolume, startExportTask, exportTableToPointInTime or
\* deleteVolume call ends the execution as failed only when the retries of
\* its task are used up, never on the first error.
C22_TransientErrorsRetried ==
    [][(CallIssued(sub, data) /\ sub' \in FailStates)
         => retry = RetryMaxAttempts]_vars

\* C23: an execution that failed in the finalizer has issued
\* deleteRecoveryPoint more than once.
C23_DeleteRetried ==
    (acb = "Failed" /\ deleteRecoveryPointCalls # <<>>)
      => Len(deleteRecoveryPointCalls) >= 2

\* C24: a top-level execution starts at most one export sub-execution.
C24_OneExportExecution == executions <= 1

----------------------------------------------------------------------------
(* The archival worker *)

\* The process p is past getnextdev with a device path of its own choosing
\* and has not yet given it up.
Selected(p) ==
    /\ worker[p].blkdev # None
    /\ worker[p].pc \in {"attach-volume", "mktemp", "inotifywait", "mount",
                         "tar", "umount", "dd", "detach-volume", "rm",
                         "detachandexit"}

\* C25: no two worker processes on one host have selected the same device
\* path /dev/xvd<letter>, that is hold the same lock file, at the same
\* time.
C25_DevicePathExclusive ==
    \A p, q \in Procs :
        (p # q /\ Selected(p) /\ Selected(q))
          => worker[p].blkdev # worker[q].blkdev

\* C26: a worker run never writes both backup.tar.gz and rawbackup.gz; it
\* writes backup.tar.gz only after a mount that succeeded and rawbackup.gz
\* only after every mount attempt failed; a run that exits with status 0
\* has written exactly one of the two.
C26_OneArchiveObject ==
    \A p \in Procs :
        LET w == worker[p]
        IN /\ w.written # {"backup.tar.gz", "rawbackup.gz"}
           /\ "backup.tar.gz" \in w.written => w.mounted
           /\ "rawbackup.gz" \in w.written
                => (~w.mounted /\ w.mountCalls = MountAttempts)
           /\ Exited(w, 0) => Cardinality(w.written) = 1

\* Two runs have exited with status 0, one after a mount that succeeded and
\* one after all mount attempts failed.
C26_Witness ==
    \E p, q \in Procs :
        /\ Exited(worker[p], 0) /\ worker[p].written = {"backup.tar.gz"}
        /\ Exited(worker[q], 0) /\ worker[q].written = {"rawbackup.gz"}
        /\ worker[q].mountCalls = MountAttempts

----------------------------------------------------------------------------
(* Failure propagation *)

\* C27: once the export sub-execution has ended Failed with the run task's
\* retries used up, or the deleteRecoveryPoint call has failed, the
\* top-level execution is in Failed; it is in Success only after a
\* sub-execution that Succeeded and without a failed delete.
C27_FailuresPropagate ==
    /\ (lastOutcome = "FAILED" /\ acb \notin RunTasks) => acb = "Failed"
    /\ deleteRecoveryPointFailed => acb = "Failed"
    /\ acb = "Success"
         => (lastOutcome = "SUCCEEDED" /\ ~deleteRecoveryPointFailed)

\* The fourth sub-execution of a job has ended Failed and the top-level
\* execution with it.
C27_Witness ==
    /\ acb = "Failed"
    /\ lastOutcome = "FAILED"
    /\ executions = RetryMaxAttempts + 1

\* C28: the metadata returned for an Aurora or RDS job carries the values
\* that were looked up: Engine is the engine of the snapshot, which is never
\* the empty string, and Tags is the tag list the service answers with,
\* which is not empty in any of the environments drawn.
C28_LookedUpValuesReturned ==
    (result.ok /\ event.resourceType \in {"Aurora", "RDS"}) =>
        /\ result.value["Engine"] # <<>>
        /\ result.value["Tags"] # <<>>

----------------------------------------------------------------------------
(* Cleanup of the restored volume *)

\* C29: at every entry to EBSCleanupTask and to EBSForceDetach, also
\* through a Catch, the run state holds $.Restore.VolumeId and it is the
\* volume that createVolume returned in this execution; every deleteVolume
\* and detachVolume call is for that volume.
C29_VolumeIdAtCleanup ==
    /\ sub \in {"EBSCleanupTask", "EBSForceDetach"}
         => (Has(data, "Restore") /\ data["Restore"] = volume)
    /\ \A i \in 1..Len(deleteVolumeCalls) : deleteVolumeCalls[i] = volume
    /\ \A i \in 1..Len(detachVolumeCalls) : detachVolumeCalls[i] = volume

\* C30: an EBS execution whose archival job succeeded and whose deleteVolume
\* was answered VolumeInUse, so that the Catch to the force-detach round was
\* taken, ends Succeeded like one whose first delete succeeded.
C30_SucceedsAfterForceDetach ==
    (EBSEnded /\ inUseCaught /\ submitJobCalls # <<>> /\ ~jobFailed)
      => sub = "EBSSucceed"

----------------------------------------------------------------------------
(* Availability zones and job queues *)

\* C31: every availability zone the metadata handler has chosen has an
\* EBSBatchJobTask branch in the "EBS Ready?" Choice; a volume polled
\* 'available' is sent to the archival job of its zone, and the execution is
\* never in EBSReadyFailed with an available volume.
C31_EveryZoneHasJobQueue ==
    /\ azSeen \subseteq DOMAIN ebsbatchtasks
    /\ sub = "EBSReadyFailed" => Field(data, "Ready") # "available"
    /\ (sub = "EBSBatchJobTask" /\ Has(data, "AvailabilityZone"))
         => /\ task = data["AvailabilityZone"]
            /\ ebsbatchtasks[task].jobQueue = jqs[data["AvailabilityZone"]]

\* A volume restored in the last zone of the list was polled 'available'
\* and its archival job is about to be submitted.
C31_Witness ==
    /\ sub = "EBSBatchJobTask"
    /\ Field(data, "Ready") = "available"
    /\ Field(data, "AvailabilityZone") = "az-c"
    /\ task = "az-c"

----------------------------------------------------------------------------
(* Polling *)

\* The states of the two managed-export machines in which an execution runs.
ManagedExportStates ==
    {"RDSStartExportTask", "RDSExportStatusTask", "RDSExportStatus",
     "RDSExportWait", "DDBStartExportTask", "DDBExportStatusTask",
     "DDBExportStatus", "DDBExportWait"}

\* C32: under fair scheduling, with a provider that answers some poll with
\* a terminal status, every managed-export execution ends Succeeded or
\* Failed; until then each wait is followed by another poll of the same
\* export, with nothing counted from one poll to the next.
C32_PollingLiveness ==
    /\ (sub \in ManagedExportStates) ~> Ended
    /\ [][(sub \in {"RDSExportWait", "DDBExportWait"})
            => /\ sub' = IF sub = "RDSExportWait" THEN "RDSExportStatusTask"
                         ELSE "DDBExportStatusTask"
               /\ data' = data /\ retry' = 0]_vars

\* A DynamoDB export was polled IN_PROGRESS and the execution waits for the
\* next poll.
C32_Witness ==
    /\ sub = "DDBExportWait"
    /\ Field(data, "Status") = "IN_PROGRESS"

\* The three polling loops: the start call, the status poll, the Choice on
\* the polled status and the Wait before the next poll.
PollingLoops ==
    {[start |-> "EBSRestoreTask", poll |-> "EBSReadyTask",
      choice |-> "EBS Ready?", wait |-> "EBSReadyWait"],
     [start |-> "RDSStartExportTask", poll |-> "RDSExportStatusTask",
      choice |-> "RDSExportStatus", wait |-> "RDSExportWait"],
     [start |-> "DDBStartExportTask", poll |-> "DDBExportStatusTask",
      choice |-> "DDBExportStatus", wait |-> "DDBExportWait"]}

\* C33: in each polling loop the start call, when it succeeds, is followed
\* by the first poll with no wait; a poll is entered only from the start
\* call or from the loop's Wait; the Wait is entered only from the Choice
\* that follows a poll and is followed by a poll: one Wait lies between any
\* two consecutive polls of an execution.
C33_OneWaitBetweenPolls ==
    [][\A loop \in PollingLoops :
          /\ (sub = loop.start /\ sub' \notin {loop.start, "ExecutionFailed"})
               => sub' = loop.poll
          /\ sub' = loop.start => sub \in {None, loop.start}
          /\ sub' = loop.poll => sub \in {loop.start, loop.wait}
          /\ sub = loop.poll
               => sub' \in {loop.choice, "EBSCleanupTask", "ExecutionFailed"}
          /\ sub' = loop.wait => sub = loop.choice
          /\ sub = loop.wait => sub' = loop.poll]_vars

\* A second readiness poll is about to be made: the volume was polled
\* 'creating' and the wait is over.
C33_Witness ==
    /\ sub = "EBSReadyTask"
    /\ Field(data, "Ready") = "creating"

----------------------------------------------------------------------------
(* The finalizer *)

\* C34: every deleteRecoveryPoint call names the backup vault and the
\* recovery point ARN of the job's own event, as the metadata handler
\* recorded them and the export sub-execution handed them on in its output,
\* whichever of the three export machines ran.
C34_DeleteScopedToJob ==
    \A i \in 1..Len(deleteRecoveryPointCalls) :
        /\ deleteRecoveryPointCalls[i].BackupVaultName
             = event.backupVaultName.str
        /\ deleteRecoveryPointCalls[i].RecoveryPointArn
             = event.recoveryPointArn.str
        /\ deleteRecoveryPointCalls[i].BackupVaultName
             = acbData["BackupVaultName"]
        /\ deleteRecoveryPointCalls[i].RecoveryPointArn
             = acbData["SnapshotArn"]

\* The recovery point of a DynamoDB job was deleted after its export.
C34_Witness ==
    /\ event.resourceType = "DynamoDB"
    /\ acb = "Success"
    /\ Len(deleteRecoveryPointCalls) = 1

----------------------------------------------------------------------------
(* Lock files, detach and retries of the archival worker *)

\* C35: once a worker process has terminated, no lock file that it created
\* is left on the host, unless a process that is still running has created
\* that file as well.
C35_LockFilesReleased ==
    \A p \in Procs :
        worker[p].pc = "exit"
          => \A l \in worker[p].created \cap lockfiles :
                \E q \in Procs \ {p} :
                    l \in worker[q].created /\ worker[q].pc # "exit"

\* C36: a worker process in which an attach-volume call succeeded has issued
\* a detach-volume call when it has exited, whatever its exit status.
C36_DetachOnEveryExit ==
    \A p \in Procs :
        (worker[p].pc = "exit" /\ worker[p].everAttached)
          => worker[p].detachCalls >= 1

\* A run whose archive was uploaded and whose umount failed has exited with
\* status 1 after its detach-volume call.
C36_Witness ==
    \E p \in Procs :
        /\ Exited(worker[p], 1)
        /\ worker[p].everAttached
        /\ worker[p].written = {"backup.tar.gz"}
        /\ worker[p].detachCalls = 1

\* The process has left `retry 3 attachvolume` with status 0.
AttachReturned0(w) ==
    w.pc \in {"mktemp", "inotifywait", "mount", "tar", "umount", "dd",
              "detach-volume", "rm"}

\* The process has left `retry 5 mount` with status 0, or with status 1.
MountReturned0(w) == w.pc \in {"tar", "umount"}

MountReturned1(w) == w.pc = "dd"

\* C38: the retry helper runs its command at most max_attempts times and
\* never again after a run that succeeded; it returns 0 only after a run
\* that succeeded and 1 only after max_attempts runs that all failed: at
\* most 3 attach-volume calls and 5 mounts are made in a worker run.
C38_RetryHelper ==
    /\ [](\A p \in Procs :
            LET w == worker[p]
            IN /\ w.attachCalls <= AttachAttempts
               /\ w.mountCalls <= MountAttempts
               /\ AttachReturned0(w) => w.everAttached
               /\ (w.pc = "detachandexit" /\ ~w.everAttached)
                    => w.attachCalls = AttachAttempts
               /\ MountReturned0(w) => w.mounted
               /\ MountReturned1(w)
                    => (~w.mounted /\ w.mountCalls = MountAttempts))
    /\ [][\A p \in Procs :
            /\ worker[p].everAttached
                 => worker'[p].attachCalls = worker[p].attachCalls
            /\ worker[p].mounted
                 => worker'[p].mountCalls = worker[p].mountCalls]_vars

\* One run has given up after three failed attach-volume calls and another
\* has mounted the volume at the fifth attempt.
C38_Witness ==
    \E p, q \in Procs :
        /\ Exited(worker[p], 1)
        /\ ~worker[p].everAttached /\ worker[p].attachCalls = AttachAttempts
        /\ worker[q].mounted /\ worker[q].mountCalls = MountAttempts

----------------------------------------------------------------------------
(* The snapshot identifier *)

\* The position of the last "/" of s, 0 when s has none.
LastSlash(s) ==
    IF \E i \in 1..Len(s) : s[i] = "/"
    THEN CHOOSE i \in 1..Len(s) :
            s[i] = "/" /\ \A k \in (i + 1)..Len(s) : s[k] # "/"
    ELSE 0

\* C37: in the metadata the handler returns, SnapshotId is what follows the
\* last "/" of the event's recoveryPointArn, the whole ARN when it has no
\* "/", and SnapshotArn is the recoveryPointArn as it came.
C37_SnapshotIdTrailingSegment ==
    result.ok =>
        LET arn == event.recoveryPointArn.str
        IN  /\ result.value["SnapshotId"]
                 = SubSeq(arn, LastSlash(arn) + 1, Len(arn))
            /\ result.value["SnapshotArn"] = arn

\* Metadata was returned for a recovery point ARN with two "/".
C37_Witness ==
    /\ result.ok
    /\ event.recoveryPointArn.str = RecoveryPointNested
    /\ result.value["SnapshotId"] = <<"s">>

============================================================================
